---- MODULE Spec2Model ----
(***************************************************************************)
(* A model of the Monkey tree-walking interpreter of src/monk.             *)
(*                                                                         *)
(* The evaluator (src/monk/evaluator.py) is a recursive function of an AST *)
(* node and an environment.  It is modelled by the recursive operator      *)
(* evaluate, which threads the interpreter's mutable state h (the heap of  *)
(* Environment objects, the lines left on standard input, the depth of the *)
(* call stack, and a history of what the evaluation did) through every     *)
(* sub-evaluation in the order of the Python code.  A Python exception is  *)
(* a result [raised |-> <class>, msg |-> <message>] that every caller      *)
(* hands up unchanged.                                                     *)
(***************************************************************************)
EXTENDS Integers, Sequences, FiniteSets, TLC

VARIABLES
    program,    \* the Program handed to evaluate (NoProgram before the run)
    envs,       \* the heap of Environment objects; the top level one is 1
    stdin,      \* the lines standard input still holds
    result,     \* what evaluate(program, env) returned or raised
    trace,      \* history: what the evaluation did, in order
    main,       \* where __main__.py is, and what it has printed
    code,       \* the source text given to the lexer
    lexer,      \* the Lexer object: its cursor into the text
    tokens,     \* history: the tokens next(lexer) has returned to a caller
    written,    \* the expression the source text was written from, if any
    parsed,     \* what Parser(lexer).parse_program() returned or raised
    printed,    \* str(parsed)
    reparsed    \* what parsing the printed text returned or raised

evalVars == <<program, envs, stdin, result, trace, main>>

syntaxVars == <<code, lexer, tokens, written, parsed, printed, reparsed>>

vars == <<program, envs, stdin, result, trace, main,
          code, lexer, tokens, written, parsed, printed, reparsed>>

(***************************************************************************)
(* Every record of the model carries one of these fields, which tells what *)
(* it is: an AST node, a runtime object, a raised exception, Python's      *)
(* None, or an entry of the history.                                       *)
(***************************************************************************)
KindFields ==
    DOMAIN [node |-> "an AST node", type |-> "a runtime object",
            raised |-> "an exception", none |-> "None",
            ev |-> "an entry of the history"]

(***************************************************************************)
(* Bounds of the model.                                                    *)
(***************************************************************************)
\* integer literals of the checked programs are 0 .. MaxInt
MaxInt == 2
\* nested Monkey calls before the host's recursion limit is hit
MaxDepth == 3

(***************************************************************************)
(* Python's None, and exceptions.                                          *)
(***************************************************************************)
None == [none |-> TRUE]

Raise(exc, msg) == [raised |-> exc, msg |-> msg]

IsRaised(o) == "raised" \in DOMAIN o

(***************************************************************************)
(* Runtime values: src/monk/object.py.                                     *)
(***************************************************************************)
Integer(v) == [type |-> "INTEGER", value |-> v]

Boolean(b) == [type |-> "BOOLEAN", value |-> b]

Null == [type |-> "NULL"]

ReturnValue(o) == [type |-> "RETURN_VALUE", value |-> o]

Function(parameters, body, environment) ==
    [type |-> "FUNCTION", parameters |-> parameters, body |-> body,
     environment |-> environment]

String(s) == [type |-> "STRING", value |-> s]

Builtin(name) == [type |-> "BUILTIN", function |-> name]

NULL == Null

TRUE_ == Boolean(TRUE)

FALSE_ == Boolean(FALSE)

IsObject(o) == "type" \in DOMAIN o

(***************************************************************************)
(* Environment: a map of its own and an optional outer environment.        *)
(* Environments are heap objects shared by reference: a value of the model *)
(* refers to one by its index in the heap es, and 0 stands for no outer.   *)
(***************************************************************************)
EmptyMap == [n \in {} |-> NULL]

Environment(outer) == [outer |-> outer, map |-> EmptyMap]

\* Environment.get: the environment's own map only
Environment_get(es, env, name) ==
    IF name \in DOMAIN es[env].map THEN es[env].map[name] ELSE None

RECURSIVE Environment_owner(_, _, _)
\* the nearest environment of the chain that binds name, or 0
Environment_owner(es, env, name) ==
    IF name \in DOMAIN es[env].map THEN env
    ELSE IF es[env].outer # 0 THEN Environment_owner(es, es[env].outer, name)
    ELSE 0

\* an assignment: writes where the name is bound already, if it is
Environment_setitem_where_bound(es, env, name, obj) ==
    LET owner == Environment_owner(es, env, name)
    IN  [es EXCEPT ![IF owner # 0 THEN owner ELSE env].map =
                       (name :> obj) @@ @]

Environment_setitem(es, env, name, obj) ==
    [es EXCEPT ![env].map = (name :> obj) @@ @]

RECURSIVE Environment_getitem(_, _, _)
\* Environment.__getitem__: own map, then the outer chain
Environment_getitem(es, env, name) ==
    IF name \in DOMAIN es[env].map
        THEN es[env].map[name]
        ELSE IF es[env].outer # 0
            THEN Environment_getitem(es, es[env].outer, name)
            ELSE Raise("KeyError", "Unknown identifier " \o name)

(***************************************************************************)
(* AST nodes: src/monk/ast.py.  The evaluator reads no token, so the token *)
(* field of a node is left out here.  An Identifier used as a let name or  *)
(* a parameter is the Identifier node.                                     *)
(***************************************************************************)
Program(statements) == [node |-> "Program", statements |-> statements]

LetStatement(name, value) ==
    [node |-> "LetStatement", name |-> name, value |-> value]

ReturnStatement(value) == [node |-> "ReturnStatement", value |-> value]

ExpressionStatement(expression) ==
    [node |-> "ExpressionStatement", expression |-> expression]

BlockStatement(statements) ==
    [node |-> "BlockStatement", statements |-> statements]

Identifier(value) == [node |-> "Identifier", value |-> value]

IntegerLiteral(value) == [node |-> "IntegerLiteral", value |-> value]

BooleanLiteral(value) == [node |-> "BooleanLiteral", value |-> value]

StringLiteral(value) == [node |-> "StringLiteral", value |-> value]

FunctionLiteral(parameters, body) ==
    [node |-> "FunctionLiteral", parameters |-> parameters, body |-> body]

PrefixExpression(operator, right) ==
    [node |-> "PrefixExpression", operator |-> operator, right |-> right]

InfixExpression(left, operator, right) ==
    [node |-> "InfixExpression", left |-> left, operator |-> operator,
     right |-> right]

IfExpression(condition, consequence, alternative) ==
    [node |-> "IfExpression", condition |-> condition,
     consequence |-> consequence, alternative |-> alternative]

CallExpression(function, arguments) ==
    [node |-> "CallExpression", function |-> function,
     arguments |-> arguments]

NoProgram == [node |-> "NoProgram"]

(***************************************************************************)
(* The operators of the evaluator that read no environment.                *)
(***************************************************************************)
\* a plausible slip: the host's truthiness of the value, under which 0 and
\* the empty string are falsy too
is_truthy_host(obj) == obj \notin {NULL, FALSE_, Integer(0), String("")}

\* obj not in (NULL, FALSE): dataclass equality, the same class and fields
is_truthy(obj) == obj \notin {NULL, FALSE_}

evaluate_bang_expression(right) ==
    IF right \in {FALSE_, NULL} THEN TRUE_ ELSE FALSE_

evaluate_integer_minus_expression(right) == Integer(-right.value)

evaluate_prefix_expression(operator, right) ==
    IF operator = "!"
        THEN evaluate_bang_expression(right)
        ELSE IF operator = "-" /\ right.type = "INTEGER"
            THEN evaluate_integer_minus_expression(right)
            ELSE Raise("SyntaxError",
                       "Unknown operator: " \o operator \o right.type)

\* the quotient rounded toward zero, as C and Go divide
TruncDiv(lhs, rhs) ==
    LET al == IF lhs < 0 THEN -lhs ELSE lhs
        ar == IF rhs < 0 THEN -rhs ELSE rhs
        q == al \div ar
    IN  IF (lhs < 0) = (rhs < 0) THEN q ELSE -q

\* Python's lhs // rhs: the quotient rounded toward minus infinity
FloorDiv(lhs, rhs) ==
    IF rhs > 0 THEN lhs \div rhs ELSE (-lhs) \div (-rhs)

evaluate_integer_infix_expression(operator, left, right) ==
    LET lhs == left.value
        rhs == right.value
    IN  CASE operator = "+" -> Integer(lhs + rhs)
          [] operator = "-" -> Integer(lhs - rhs)
          [] operator = "*" -> Integer(lhs * rhs)
          [] operator = "/" ->
                IF rhs = 0
                    THEN Raise("ZeroDivisionError",
                               "integer division or modulo by zero")
                    ELSE Integer(FloorDiv(lhs, rhs))
          [] operator = ">" -> Boolean(lhs > rhs)
          [] operator = "<" -> Boolean(lhs < rhs)
          [] OTHER -> NULL

\* isinstance(getattr(o, "value", None), int | bool | str): the objects
\* whose value attribute is a Python int, bool or str are exactly the
\* Integer, Boolean and String objects (a ReturnValue's value is an Object,
\* and Null, Function and Builtin have no value attribute)
HasPlainValue(o) == o.type \in {"INTEGER", "BOOLEAN", "STRING"}

UnknownOperator(operator, left, right) ==
    Raise("SyntaxError",
          "Unknown operator: " \o left.type \o " " \o operator \o " "
              \o right.type)

\* evaluate_infix_expression from "if operator == '=='" on: both values are
\* ints, bools or strs of one type
evaluate_infix_values(operator, left, right) ==
    IF operator = "==" THEN Boolean(left.value = right.value)
    ELSE IF operator = "!=" THEN Boolean(left.value # right.value)
    ELSE IF operator = "+" /\ left.type = "STRING" /\ right.type = "STRING"
        THEN String(left.value \o right.value)
    ELSE IF left.type = "INTEGER" /\ right.type = "INTEGER"
        THEN evaluate_integer_infix_expression(operator, left, right)
    ELSE UnknownOperator(operator, left, right)

\* a plausible slip: no isinstance check of the two values, so that
\* None == None is compared like any other pair
evaluate_infix_same_type_unchecked(operator, left, right) ==
    IF HasPlainValue(left) /\ HasPlainValue(right)
        THEN evaluate_infix_values(operator, left, right)
    ELSE IF operator = "==" THEN Boolean(left = right)
    ELSE IF operator = "!=" THEN Boolean(left # right)
    ELSE UnknownOperator(operator, left, right)

\* evaluate_infix_expression after the type check: lhs and rhs are the value
\* attributes, which must be ints, bools or strs
evaluate_infix_same_type(operator, left, right) ==
    IF ~HasPlainValue(left) \/ ~HasPlainValue(right)
        THEN Raise("TypeError",
                "Infix expression values must be integers, booleans, or strings")
        ELSE evaluate_infix_values(operator, left, right)

TypeMismatch(operator, left, right) ==
    Raise("TypeError",
          "Type mismatch: " \o left.type \o " " \o operator \o " "
              \o right.type)

\* a plausible slip: == and != dispatched before the type check, so that
\* operands of different types compare unequal
evaluate_infix_expression_eq_first(operator, left, right) ==
    IF left.type = right.type
        THEN evaluate_infix_same_type(operator, left, right)
    ELSE IF operator = "==" THEN FALSE_
    ELSE IF operator = "!=" THEN TRUE_
    ELSE TypeMismatch(operator, left, right)

evaluate_infix_expression(operator, left, right) ==
    IF left.type # right.type
        THEN TypeMismatch(operator, left, right)
        ELSE evaluate_infix_same_type(operator, left, right)

(***************************************************************************)
(* The interpreter state threaded through an evaluation, and the pair an   *)
(* evaluation yields: the state after it and the object returned (or the   *)
(* exception raised).                                                      *)
(***************************************************************************)
R(h, obj) == [h |-> h, obj |-> obj]

\* history only: appends a record of what was just done
Log(h, e) == [h EXCEPT !.trace = Append(@, e)]

(***************************************************************************)
(* Built-in functions.  The parser builds no array literal and object.py   *)
(* defines no Array class, so no value of the model is an Array: every     *)
(* isinstance(x, Array) of the code is false.                              *)
(***************************************************************************)
builtins == {"len", "puts", "input", "first", "last", "rest", "push"}

builtin_len(args, h) ==
    IF Len(args) # 1
        THEN R(h, Raise("TypeError",
                "len takes 1 argument, got " \o ToString(Len(args))))
    ELSE IF args[1].type # "STRING"
        THEN R(h, Raise("TypeError",
                "len takes a string or an array, got " \o args[1].type))
    ELSE R(h, Integer(Len(args[1].value)))

RECURSIVE builtin_puts_loop(_, _, _)
builtin_puts_loop(args, i, h) ==
    IF i > Len(args)
        THEN R(h, NULL)
        ELSE builtin_puts_loop(args, i + 1,
                               Log(h, [ev |-> "print", obj |-> args[i]]))

builtin_puts(args, h) == builtin_puts_loop(args, 1, h)

\* input(prompt) writes the prompt and reads one line of standard input
ReadLine(prompt, h) ==
    LET h1 == Log(h, [ev |-> "prompt", text |-> prompt])
    IN  IF h1.stdin = <<>>
            THEN R(h1, Raise("EOFError", "EOF when reading a line"))
            ELSE R([h1 EXCEPT !.stdin = Tail(@)], String(Head(h1.stdin)))

builtin_input(args, h) ==
    IF Len(args) = 1
        THEN IF args[1].type # "STRING"
                THEN R(h, Raise("TypeError",
                        "Input prompt should be a string, got "
                            \o args[1].type))
                ELSE ReadLine(args[1].value, h)
        ELSE ReadLine("", h)

\* first, last and rest: one argument, which must be an Array
builtin_array1(name, args, h) ==
    IF Len(args) # 1
        THEN R(h, Raise("TypeError",
                name \o " takes 1 argument, got " \o ToString(Len(args))))
        ELSE R(h, Raise("TypeError",
                name \o " takes an array, got " \o args[1].type))

builtin_push(args, h) ==
    IF Len(args) # 2
        THEN R(h, Raise("TypeError",
                "push takes 2 arguments, got " \o ToString(Len(args))))
        ELSE R(h, Raise("TypeError",
                "First argument to push takes an array, got "
                    \o args[1].type))

\* function.function(*args) of a Builtin
CallBuiltin(name, args, h) ==
    CASE name = "len" -> builtin_len(args, h)
      [] name = "puts" -> builtin_puts(args, h)
      [] name = "input" -> builtin_input(args, h)
      [] name = "push" -> builtin_push(args, h)
      [] OTHER -> builtin_array1(name, args, h)

(***************************************************************************)
(* evaluate: the tree walk.                                                *)
(***************************************************************************)
RECURSIVE evaluate(_, _, _)
RECURSIVE evaluate_program_loop(_, _, _, _, _)
RECURSIVE evaluate_block_statement_loop(_, _, _, _, _)
RECURSIVE evaluate_expressions_loop(_, _, _, _, _)
RECURSIVE evaluate_expressions_downto(_, _, _, _, _)
RECURSIVE bind_parameters(_, _, _, _, _)

\* for statement in statements: result = evaluate(statement, env);
\* a ReturnValue is unwrapped and returned
evaluate_program_loop(env, statements, i, result_, h) ==
    IF i > Len(statements)
        THEN R(h, result_)
        ELSE LET h1 == Log(h, [ev |-> "stmt", in |-> "program", index |-> i,
                               stmt |-> statements[i], depth |-> h.depth])
                 r == evaluate(statements[i], env, h1)
             IN  IF IsRaised(r.obj) THEN r
                 ELSE IF r.obj.type = "RETURN_VALUE"
                     THEN R(r.h, r.obj.value)
                     ELSE evaluate_program_loop(env, statements, i + 1,
                                                r.obj, r.h)

evaluate_program(env, statements, h) ==
    evaluate_program_loop(env, statements, 1, Null, h)

\* the same loop; a ReturnValue is returned as it is
evaluate_block_statement_loop(env, statements, i, result_, h) ==
    IF i > Len(statements)
        THEN R(h, result_)
        ELSE LET h1 == Log(h, [ev |-> "stmt", in |-> "block", index |-> i,
                               stmt |-> statements[i], depth |-> h.depth])
                 r == evaluate(statements[i], env, h1)
             IN  IF IsRaised(r.obj) THEN r
                 ELSE IF r.obj.type = "RETURN_VALUE"
                     THEN R(r.h, r.obj)
                     ELSE evaluate_block_statement_loop(env, statements,
                                                        i + 1, r.obj, r.h)

evaluate_block_statement(env, statements, h) ==
    evaluate_block_statement_loop(env, statements, 1, Null, h)

\* [evaluate(expression, env) for expression in expressions]: yields the
\* list in objs, or the exception of the first expression that raises
evaluate_expressions_loop(expressions, env, i, objs, h) ==
    IF i > Len(expressions)
        THEN [h |-> h, obj |-> None, objs |-> objs]
        ELSE LET r == evaluate(expressions[i], env, h)
             IN  IF IsRaised(r.obj)
                     THEN [h |-> r.h, obj |-> r.obj, objs |-> objs]
                     ELSE evaluate_expressions_loop(expressions, env, i + 1,
                                                    Append(objs, r.obj), r.h)

evaluate_expressions_downto(expressions, env, i, objs, h) ==
    IF i < 1
        THEN [h |-> h, obj |-> None, objs |-> objs]
        ELSE LET r == evaluate(expressions[i], env, h)
             IN  IF IsRaised(r.obj)
                     THEN [h |-> r.h, obj |-> r.obj, objs |-> objs]
                     ELSE evaluate_expressions_downto(expressions, env, i - 1,
                                                      <<r.obj>> \o objs, r.h)

\* the same list, its expressions evaluated from the last to the first
evaluate_expressions_right_to_left(expressions, env, h) ==
    evaluate_expressions_downto(expressions, env, Len(expressions), <<>>, h)

evaluate_expressions(expressions, env, h) ==
    evaluate_expressions_loop(expressions, env, 1, <<>>, h)

\* for i, param in enumerate(function.parameters):
\*     scope_env[param.value] = args[i]
bind_parameters(es, scope_env, parameters, args, i) ==
    IF i > Len(parameters)
        THEN [es |-> es, obj |-> None]
    ELSE IF i > Len(args)
        THEN [es |-> es,
              obj |-> Raise("IndexError", "list index out of range")]
    ELSE bind_parameters(
            Environment_setitem(es, scope_env, parameters[i].value, args[i]),
            scope_env, parameters, args, i + 1)

\* case Identifier(): the environment's get, then the built-in table
evaluate_identifier(node, env, h) ==
    LET v == Environment_get(h.envs, env, node.value)
        obj == IF v # None
                  THEN v
                  ELSE IF node.value \in builtins
                      THEN Builtin(node.value)
                      ELSE Raise("NameError",
                                 "Unknown identifier " \o node.value)
    IN  R(Log(h, [ev |-> "ident", name |-> node.value, env |-> env,
                  obj |-> obj,
                  chain |-> Environment_getitem(h.envs, env, node.value)]),
          obj)

\* the call without an Environment of its own: the parameters are bound in
\* the captured environment and the body runs there
apply_function_in_captured(function, args, h) ==
    LET scope_env == function.environment
        b == bind_parameters(h.envs, scope_env, function.parameters, args, 1)
        h1 == Log([h EXCEPT !.envs = b.es, !.depth = @ + 1],
                  [ev |-> "call", function |-> function, args |-> args,
                   scope |-> scope_env, depth |-> h.depth + 1])
    IN  IF b.obj # None
            THEN R([h EXCEPT !.envs = b.es], b.obj)
        ELSE IF h.depth >= MaxDepth
            THEN R([h EXCEPT !.envs = b.es],
                   Raise("RecursionError",
                         "maximum recursion depth exceeded"))
        ELSE LET r == evaluate(function.body, scope_env, h1)
                 h2 == [r.h EXCEPT !.depth = h.depth]
                 obj == IF IsRaised(r.obj) THEN r.obj
                        ELSE IF r.obj.type = "RETURN_VALUE"
                            THEN r.obj.value
                            ELSE r.obj
             IN  IF IsRaised(r.obj)
                     THEN R(h2, obj)
                     ELSE R(Log(h2, [ev |-> "callret", scope |-> scope_env,
                                     body |-> r.obj, obj |-> obj,
                                     depth |-> h.depth + 1]), obj)

\* case Function(): a fresh Environment whose outer is the captured one
apply_function(function, args, h) ==
    LET scope_env == Len(h.envs) + 1
        es == Append(h.envs, Environment(function.environment))
        b == bind_parameters(es, scope_env, function.parameters, args, 1)
        h1 == Log([h EXCEPT !.envs = b.es, !.depth = @ + 1],
                  [ev |-> "call", function |-> function, args |-> args,
                   scope |-> scope_env, depth |-> h.depth + 1])
    IN  IF b.obj # None
            THEN R([h EXCEPT !.envs = b.es], b.obj)
        ELSE IF h.depth >= MaxDepth
            THEN R([h EXCEPT !.envs = b.es],
                   Raise("RecursionError",
                         "maximum recursion depth exceeded"))
        ELSE LET r == evaluate(function.body, scope_env, h1)
                 h2 == [r.h EXCEPT !.depth = h.depth]
                 obj == IF IsRaised(r.obj) THEN r.obj
                        ELSE IF r.obj.type = "RETURN_VALUE"
                            THEN r.obj.value
                            ELSE r.obj
             IN  IF IsRaised(r.obj)
                     THEN R(h2, obj)
                     ELSE R(Log(h2, [ev |-> "callret", scope |-> scope_env,
                                     body |-> r.obj, obj |-> obj,
                                     depth |-> h.depth + 1]), obj)

evaluate_call_expression(node, env, h) ==
    LET f == evaluate(node.function, env, h)
    IN  IF IsRaised(f.obj) THEN f
        ELSE LET a == evaluate_expressions(node.arguments, env, f.h)
             IN  IF a.obj # None THEN R(a.h, a.obj)
                 ELSE IF f.obj.type = "BUILTIN"
                     THEN CallBuiltin(f.obj.function, a.objs, a.h)
                 ELSE IF f.obj.type = "FUNCTION"
                     THEN apply_function(f.obj, a.objs, a.h)
                 ELSE R(a.h, Raise("TypeError",
                                   "Cannot call " \o f.obj.type))

evaluate_if_expression(node, env, h) ==
    LET c == evaluate(node.condition, env, h)
    IN  IF IsRaised(c.obj) THEN c
        ELSE IF is_truthy(c.obj)
            THEN evaluate(node.consequence, env,
                          Log(c.h, [ev |-> "if", condition |-> c.obj,
                                    branch |-> "consequence"]))
        ELSE IF node.alternative # None
            THEN evaluate(node.alternative, env,
                          Log(c.h, [ev |-> "if", condition |-> c.obj,
                                    branch |-> "alternative"]))
        ELSE R(Log(c.h, [ev |-> "if", condition |-> c.obj,
                         branch |-> "none"]), NULL)

evaluate_prefix(node, env, h) ==
    LET r == evaluate(node.right, env, h)
    IN  IF IsRaised(r.obj) THEN r
        ELSE LET obj == evaluate_prefix_expression(node.operator, r.obj)
             IN  R(Log(r.h, [ev |-> "prefix", operator |-> node.operator,
                             right |-> r.obj, obj |-> obj]), obj)

evaluate_infix(node, env, h) ==
    LET l == evaluate(node.left, env, h)
    IN  IF IsRaised(l.obj) THEN l
        ELSE LET r == evaluate(node.right, env, l.h)
             IN  IF IsRaised(r.obj) THEN r
                 ELSE LET obj == evaluate_infix_expression(node.operator,
                                                           l.obj, r.obj)
                      IN  R(Log(r.h, [ev |-> "infix",
                                      operator |-> node.operator,
                                      left |-> l.obj, right |-> r.obj,
                                      obj |-> obj]), obj)

evaluate_let_statement(node, env, h) ==
    LET val == evaluate(node.value, env, h)
    IN  IF IsRaised(val.obj) THEN val
        ELSE R(Log([val.h EXCEPT !.envs =
                        Environment_setitem(@, env, node.name.value, val.obj)],
                   [ev |-> "let", env |-> env, name |-> node.name.value,
                    obj |-> val.obj]),
               NULL)

evaluate_return_statement(node, env, h) ==
    LET r == evaluate(node.value, env, h)
    IN  IF IsRaised(r.obj) THEN r
        ELSE R(Log(r.h, [ev |-> "return", obj |-> r.obj,
                         depth |-> r.h.depth]),
               ReturnValue(r.obj))

evaluate(node, env, h) ==
    CASE node.node = "Program" ->
            evaluate_program(env, node.statements, h)
      [] node.node = "BlockStatement" ->
            evaluate_block_statement(env, node.statements, h)
      [] node.node = "ExpressionStatement" ->
            evaluate(node.expression, env, h)
      [] node.node = "IntegerLiteral" -> R(h, Integer(node.value))
      [] node.node = "StringLiteral" -> R(h, String(node.value))
      [] node.node = "Identifier" -> evaluate_identifier(node, env, h)
      [] node.node = "BooleanLiteral" ->
            R(h, IF node.value THEN TRUE_ ELSE FALSE_)
      [] node.node = "PrefixExpression" -> evaluate_prefix(node, env, h)
      [] node.node = "InfixExpression" -> evaluate_infix(node, env, h)
      [] node.node = "IfExpression" -> evaluate_if_expression(node, env, h)
      [] node.node = "FunctionLiteral" ->
            R(h, Function(node.parameters, node.body, env))
      [] node.node = "CallExpression" ->
            evaluate_call_expression(node, env, h)
      [] node.node = "LetStatement" -> evaluate_let_statement(node, env, h)
      [] node.node = "ReturnStatement" ->
            evaluate_return_statement(node, env, h)
      [] OTHER ->
            R(h, Raise("TypeError", "Cannot evaluate " \o node.node))

(***************************************************************************)
(* The programs that are evaluated.  Each is a tree the parser builds for  *)
(* some source text: negative numbers are a prefix minus on a literal, a   *)
(* call applies an identifier or a function literal.                       *)
(***************************************************************************)
Block1(expression) == BlockStatement(<<ExpressionStatement(expression)>>)

InfixOperators == {"+", "-", "*", "/", "<", ">", "==", "!="}

PrefixOperators == {"!", "-"}

\* if (false) { 1 }: evaluates to NULL
NullExpr == IfExpression(BooleanLiteral(FALSE), Block1(IntegerLiteral(1)), None)

\* fn(x) { x }
FnExpr == FunctionLiteral(<<Identifier("x")>>, Block1(Identifier("x")))

\* if (true) { return 1; }: evaluates to a ReturnValue
ReturnExpr ==
    IfExpression(BooleanLiteral(TRUE),
                 BlockStatement(<<ReturnStatement(IntegerLiteral(1))>>), None)

\* expressions of every type of value
Operands ==
    {IntegerLiteral(n) : n \in 0 .. MaxInt}
        \cup {PrefixExpression("-", IntegerLiteral(n)) : n \in 1 .. MaxInt}
        \cup {BooleanLiteral(TRUE), BooleanLiteral(FALSE)}
        \cup {StringLiteral(""), StringLiteral("a")}
        \cup {NullExpr, FnExpr, Identifier("puts"), ReturnExpr}

\* and Booleans that a comparison produces
Conditions ==
    Operands \cup {InfixExpression(IntegerLiteral(1), op, IntegerLiteral(2)) :
                      op \in {"<", ">", "==", "!="}}

InfixPrograms ==
    {Program(<<ExpressionStatement(InfixExpression(l, op, r))>>) :
        l \in Operands, op \in InfixOperators, r \in Operands}

PrefixPrograms ==
    {Program(<<ExpressionStatement(PrefixExpression(op, c))>>) :
        op \in PrefixOperators, c \in Conditions}

IfPrograms ==
    {Program(<<ExpressionStatement(
                IfExpression(c, Block1(StringLiteral("then")), alt))>>) :
        c \in Conditions, alt \in {None, Block1(StringLiteral("else"))}}

\* statements that return, at the top level and inside function bodies
\* if (x) { return 1; } 2
ReturnInIf(c) ==
    <<ExpressionStatement(
        IfExpression(c, BlockStatement(<<ReturnStatement(IntegerLiteral(1))>>),
                     None)),
      ExpressionStatement(IntegerLiteral(2))>>

\* fn(x) { if (x) { return 1; } 2 }
FnReturnInIf ==
    FunctionLiteral(<<Identifier("x")>>,
                    BlockStatement(ReturnInIf(Identifier("x"))))

\* fn() { return if (true) { return 1; }; }
FnReturnReturn ==
    FunctionLiteral(<<>>, BlockStatement(<<ReturnStatement(ReturnExpr)>>))

\* if (10 > 1) { if (10 > 1) { return 10; } return 1; }
NestedReturn ==
    LET c == InfixExpression(IntegerLiteral(10), ">", IntegerLiteral(1))
    IN  IfExpression(c,
            BlockStatement(<<
                ExpressionStatement(
                    IfExpression(c,
                        BlockStatement(<<ReturnStatement(IntegerLiteral(10))>>),
                        None)),
                ReturnStatement(IntegerLiteral(1))>>),
            None)

StatementPool ==
    { ExpressionStatement(IntegerLiteral(9)),
      ReturnStatement(IntegerLiteral(10)),
      ExpressionStatement(ReturnExpr),
      ExpressionStatement(NestedReturn),
      \* if (false) { 1 } else { return 20; }
      ExpressionStatement(
        IfExpression(BooleanLiteral(FALSE), Block1(IntegerLiteral(1)),
                     BlockStatement(<<ReturnStatement(IntegerLiteral(20))>>))),
      \* return if (true) { return 1; };
      ReturnStatement(ReturnExpr),
      \* let x = if (true) { return 1; };
      LetStatement(Identifier("x"), ReturnExpr),
      ExpressionStatement(Identifier("x")),
      ExpressionStatement(CallExpression(FnReturnInIf, <<BooleanLiteral(TRUE)>>)),
      ExpressionStatement(CallExpression(FnReturnInIf, <<BooleanLiteral(FALSE)>>)),
      ExpressionStatement(CallExpression(FnReturnReturn, <<>>)) }

\* a bound: the statements of a program built from the pool
MaxStmts == 2

RECURSIVE StatementLists(_)
StatementLists(n) ==
    IF n = 0
        THEN {<<>>}
        ELSE LET shorter == StatementLists(n - 1)
             IN  shorter \cup {Append(l, st) : l \in shorter, st \in StatementPool}

StatementPrograms == {Program(l) : l \in StatementLists(MaxStmts)}

(***************************************************************************)
(* Programs with functions, closures and built-ins.                        *)
(***************************************************************************)
Let_(name, value) == LetStatement(Identifier(name), value)

Call_(name, arguments) ==
    ExpressionStatement(CallExpression(Identifier(name), arguments))

Fn_(params, expression) ==
    FunctionLiteral([i \in 1 .. Len(params) |-> Identifier(params[i])],
                    Block1(expression))

\* let newAdder = fn(x) { fn(y) { x + y }; };
\* let addTwo = newAdder(2); addTwo(3);
ClosureProgram ==
    Program(<<
        Let_("newAdder",
             Fn_(<<"x">>,
                 Fn_(<<"y">>,
                     InfixExpression(Identifier("x"), "+", Identifier("y"))))),
        Let_("addTwo",
             CallExpression(Identifier("newAdder"), <<IntegerLiteral(2)>>)),
        Call_("addTwo", <<IntegerLiteral(3)>>)>>)

\* let a = 1; let f = fn() { a }; f();
OuterLetProgram ==
    Program(<<Let_("a", IntegerLiteral(1)),
              Let_("f", Fn_(<<>>, Identifier("a"))),
              Call_("f", <<>>)>>)

\* let a = 1; let f = fn() { a }; let a = 2; f();
RebindProgram ==
    Program(<<Let_("a", IntegerLiteral(1)),
              Let_("f", Fn_(<<>>, Identifier("a"))),
              Let_("a", IntegerLiteral(2)),
              Call_("f", <<>>)>>)

\* let a = 1; fn(a) { a }(2);
ShadowProgram ==
    Program(<<Let_("a", IntegerLiteral(1)),
              ExpressionStatement(
                CallExpression(Fn_(<<"a">>, Identifier("a")),
                               <<IntegerLiteral(2)>>))>>)

\* let len = 1; len;
ShadowBuiltinProgram ==
    Program(<<Let_("len", IntegerLiteral(1)),
              ExpressionStatement(Identifier("len"))>>)

\* fn(len) { len }("a");
ParamShadowBuiltinProgram ==
    Program(<<ExpressionStatement(
                CallExpression(Fn_(<<"len">>, Identifier("len")),
                               <<StringLiteral("a")>>))>>)

\* let add = fn(x, y) { x + y; }; add(1 + 1, add(1, 1));
AddProgram ==
    Program(<<
        Let_("add", Fn_(<<"x", "y">>,
                        InfixExpression(Identifier("x"), "+", Identifier("y")))),
        Call_("add", <<InfixExpression(IntegerLiteral(1), "+", IntegerLiteral(1)),
                       CallExpression(Identifier("add"),
                                      <<IntegerLiteral(1), IntegerLiteral(1)>>)>>)>>)

\* let f = fn(g) { g(g) }; f(f);
RecursionProgram ==
    Program(<<
        Let_("f", Fn_(<<"g">>,
                      CallExpression(Identifier("g"), <<Identifier("g")>>))),
        Call_("f", <<Identifier("f")>>)>>)

\* fn() { fn(x) { return x; }(1); 2 }(); 3;
CallerContinuesProgram ==
    Program(<<
        ExpressionStatement(
            CallExpression(
                FunctionLiteral(<<>>,
                    BlockStatement(<<
                        ExpressionStatement(
                            CallExpression(
                                FunctionLiteral(<<Identifier("x")>>,
                                    BlockStatement(<<ReturnStatement(Identifier("x"))>>)),
                                <<IntegerLiteral(1)>>)),
                        ExpressionStatement(IntegerLiteral(2))>>)),
                <<>>)),
        ExpressionStatement(IntegerLiteral(3))>>)

\* programs of one expression statement
ExpressionPrograms ==
    {Program(<<ExpressionStatement(e)>>) : e \in
        { Identifier("foobar"),
          \* fn(x, y) { x }(1) and fn(x) { x }(1, 2)
          CallExpression(Fn_(<<"x", "y">>, Identifier("x")), <<IntegerLiteral(1)>>),
          CallExpression(Fn_(<<"x">>, Identifier("x")),
                         <<IntegerLiteral(1), IntegerLiteral(2)>>),
          \* fn() { }()
          CallExpression(FunctionLiteral(<<>>, BlockStatement(<<>>)), <<>>),
          CallExpression(Identifier("len"), <<StringLiteral("a")>>),
          CallExpression(Identifier("len"), <<IntegerLiteral(1)>>),
          CallExpression(Identifier("len"), <<>>),
          CallExpression(Identifier("puts"), <<IntegerLiteral(1), StringLiteral("a")>>),
          CallExpression(Identifier("input"), <<>>),
          CallExpression(Identifier("input"), <<StringLiteral("a")>>),
          CallExpression(Identifier("input"), <<IntegerLiteral(1)>>),
          \* input() + input()
          InfixExpression(CallExpression(Identifier("input"), <<>>), "+",
                          CallExpression(Identifier("input"), <<>>)),
          CallExpression(Identifier("first"), <<IntegerLiteral(1)>>),
          CallExpression(Identifier("push"), <<IntegerLiteral(1)>>),
          CallExpression(Identifier("push"), <<IntegerLiteral(1), IntegerLiteral(2)>>) }}

\* let a = 1; a(2);
CallIntegerProgram ==
    Program(<<Let_("a", IntegerLiteral(1)), Call_("a", <<IntegerLiteral(2)>>)>>)

\* fn(x, y) { x }(1): the parameter left without an argument is never used
UnusedParameterProgram ==
    Program(<<ExpressionStatement(
        CallExpression(Fn_(<<"x", "y">>, Identifier("x")),
                       <<IntegerLiteral(1)>>))>>)

\* fn(x, y) { y }(1): the parameter left without an argument is used
UsedParameterProgram ==
    Program(<<ExpressionStatement(
        CallExpression(Fn_(<<"x", "y">>, Identifier("y")),
                       <<IntegerLiteral(1)>>))>>)

\* the argument lists of the calls of len and input: up to two literals
BuiltinArguments ==
    LET literals == {IntegerLiteral(1), StringLiteral("a"),
                     BooleanLiteral(TRUE)}
    IN  {<<>>} \cup {<<a>> : a \in literals}
               \cup {<<a, b>> : a \in literals, b \in literals}

\* len(...) and input(...) as the only statement
BuiltinCallPrograms ==
    {Program(<<ExpressionStatement(CallExpression(Identifier(name), args))>>) :
        name \in {"len", "input"}, args \in BuiltinArguments}

\* fn() { let n = 2; n }
FnLetN ==
    FunctionLiteral(<<>>,
        BlockStatement(<<Let_("n", IntegerLiteral(2)),
                         ExpressionStatement(Identifier("n"))>>))

\* let n = 1; let f = fn() { let n = 2; n }; f(); n;
LocalLetProgram ==
    Program(<<Let_("n", IntegerLiteral(1)),
              Let_("f", FnLetN),
              Call_("f", <<>>),
              ExpressionStatement(Identifier("n"))>>)

\* let outer = fn(n) { fn() { let n = 2; n } }; let inner = outer(1);
\* inner();
CapturedLetProgram ==
    Program(<<Let_("outer", Fn_(<<"n">>, FnLetN)),
              Let_("inner",
                   CallExpression(Identifier("outer"), <<IntegerLiteral(1)>>)),
              Call_("inner", <<>>)>>)

\* fn(n, f) { f(); n }(1, fn() { let n = 2; n });
CallerLetProgram ==
    Program(<<ExpressionStatement(
        CallExpression(
            FunctionLiteral(<<Identifier("n"), Identifier("f")>>,
                BlockStatement(<<Call_("f", <<>>),
                                 ExpressionStatement(Identifier("n"))>>)),
            <<IntegerLiteral(1), FnLetN>>))>>)

\* let n = 1; fn() { let n = 2; }();
LetLastProgram ==
    Program(<<Let_("n", IntegerLiteral(1)),
              ExpressionStatement(
                CallExpression(
                    FunctionLiteral(<<>>,
                        BlockStatement(<<Let_("n", IntegerLiteral(2))>>)),
                    <<>>))>>)

LetPrograms ==
    {LocalLetProgram, CapturedLetProgram, CallerLetProgram, LetLastProgram}

\* puts("text")
Puts_(text) == CallExpression(Identifier("puts"), <<StringLiteral(text)>>)

\* an expression that raises (the unknown identifier name) or one that
\* prints (puts("name"))
OrderStep(raises, name) == IF raises THEN Identifier(name) ELSE Puts_(name)

\* fn(p, q) { puts("body") }(puts("x"), puts("y")); with, in any of the
\* four places, an unknown identifier instead: f for the function, x and y
\* for the arguments, body for the body
CallOrderProgram(f, x, y, body) ==
    Program(<<ExpressionStatement(
        CallExpression(
            IF f THEN Identifier("f")
                 ELSE Fn_(<<"p", "q">>, OrderStep(body, "body")),
            <<OrderStep(x, "x"), OrderStep(y, "y")>>))>>)

CallOrderPrograms ==
    {CallOrderProgram(f, x, y, body) : f \in BOOLEAN, x \in BOOLEAN,
                                       y \in BOOLEAN, body \in BOOLEAN}

FunctionPrograms ==
    { ClosureProgram, OuterLetProgram, RebindProgram, ShadowProgram,
      ShadowBuiltinProgram, ParamShadowBuiltinProgram, AddProgram,
      RecursionProgram, CallerContinuesProgram, CallIntegerProgram,
      UnusedParameterProgram, UsedParameterProgram }
        \cup ExpressionPrograms \cup BuiltinCallPrograms
        \cup CallOrderPrograms \cup LetPrograms

Programs ==
    InfixPrograms \cup PrefixPrograms \cup IfPrograms \cup StatementPrograms
        \cup FunctionPrograms

\* what standard input holds when the program starts
StdinLines == <<"monkey">>

(***************************************************************************)
(* The state machine: tests/test_evaluator.py do_eval, and __main__.py     *)
(* with a file: env = Environment(), then evaluate(program, env) once.     *)
(***************************************************************************)
\* no source text is involved: the Program is handed over as a tree
NoSyntax ==
    /\ code = <<>>
    /\ lexer = None
    /\ tokens = <<>>
    /\ written = None
    /\ parsed = None
    /\ printed = None
    /\ reparsed = None

Init ==
    /\ program = NoProgram
    /\ envs = <<Environment(0)>>
    /\ stdin = StdinLines
    /\ result = None
    /\ trace = <<>>
    /\ main = None
    /\ NoSyntax

DoEval(p) ==
    /\ program = NoProgram
    /\ LET r == evaluate(p, 1, [envs |-> envs, stdin |-> stdin, depth |-> 0,
                                trace |-> <<>>])
       IN  /\ program' = p
           /\ envs' = r.h.envs
           /\ stdin' = r.h.stdin
           /\ result' = r.obj
           /\ trace' = r.h.trace
    /\ UNCHANGED main
    /\ UNCHANGED syntaxVars

Next == \E p \in Programs : DoEval(p)

Spec == Init /\ [][Next]_vars

(***************************************************************************)
(* The claims.                                                             *)
(***************************************************************************)
Evaluated == program # NoProgram

\* the entries of the history of one kind
Entries(kind) == {i \in DOMAIN trace : trace[i].ev = kind}

\* C1: closure correctness.  An identifier evaluated in the body of a
\* function that was created inside a call resolves to the binding its
\* captured environment holds, and the newAdder program evaluates to 5.
C1_ClosureResolvesCaptured ==
    /\ program = ClosureProgram => result = Integer(5)
    /\ \A i \in Entries("ident") :
          /\ trace[i].env # 1
          /\ envs[trace[i].env].outer # 1
          /\ ~IsRaised(trace[i].chain)
          => trace[i].obj = trace[i].chain

\* C2: an identifier resolves innermost first: the current frame, then each
\* outer frame in chain order, then the built-in table, and Unknown
\* identifier is raised only for a name found in none of them.
C2_LookupInnermostFirst ==
    \A i \in Entries("ident") :
        trace[i].obj =
            IF ~IsRaised(trace[i].chain) THEN trace[i].chain
            ELSE IF trace[i].name \in builtins THEN Builtin(trace[i].name)
            ELSE Raise("NameError", "Unknown identifier " \o trace[i].name)

\* C3: evaluating a Program never hands back a ReturnValue.
C3_NoReturnValueAtTopLevel ==
    Evaluated /\ IsObject(result) => result.type # "RETURN_VALUE"

\* C4: once a return statement has executed at program level (in however
\* many nested if blocks), no later statement is evaluated and the program
\* yields the value of that return.
C4_ReturnEndsProgram ==
    \A i \in Entries("return") :
        trace[i].depth = 0 =>
            /\ \A j \in Entries("stmt") : j < i
            /\ result = trace[i].obj

\* the first call that returns after entry i of the history, at depth d
NextCallReturn(i, d) ==
    LET later == {j \in Entries("callret") : j > i /\ trace[j].depth = d}
    IN  CHOOSE j \in later : \A k \in later : j <= k

\* C5: a return executed at any block depth inside a function body ends
\* only that call: no later statement of the call is evaluated, the call
\* yields the returned value as an ordinary value, and the caller goes on
\* with its next statement.
C5_ReturnEndsOnlyCall ==
    /\ \A i \in Entries("return") :
          trace[i].depth > 0 =>
              LET j == NextCallReturn(i, trace[i].depth)
              IN  /\ trace[j].obj = trace[i].obj
                  /\ trace[j].obj.type # "RETURN_VALUE"
                  /\ \A k \in Entries("stmt") :
                        i < k /\ k < j => trace[k].depth < trace[i].depth
    /\ \A i \in Entries("stmt") :
          /\ trace[i].in = "program"
          /\ trace[i].stmt.node = "ExpressionStatement"
          /\ trace[i].stmt.expression.node = "CallExpression"
          /\ trace[i].index < Len(program.statements)
          /\ ~IsRaised(result)
          => \E k \in Entries("stmt") :
                /\ k > i
                /\ trace[k].in = "program"
                /\ trace[k].index = trace[i].index + 1

\* C6: operands of different types raise Type mismatch: <left> <op> <right>
\* under every infix operator, == and != included, and yield no value.
C6_TypeMismatch ==
    \A i \in Entries("infix") :
        trace[i].left.type # trace[i].right.type =>
            trace[i].obj =
                [raised |-> "TypeError",
                 msg |-> "Type mismatch: " \o trace[i].left.type \o " "
                             \o trace[i].operator \o " " \o trace[i].right.type]

C6_Witness ==
    \E i \in Entries("infix") :
        /\ trace[i].operator = "=="
        /\ trace[i].left.type = "INTEGER"
        /\ trace[i].right.type = "BOOLEAN"
        /\ result = trace[i].obj

\* the (type, operator) combinations the evaluator supports
Supported(type, operator) ==
    \/ type = "INTEGER"
    \/ type = "BOOLEAN" /\ operator \in {"==", "!="}
    \/ type = "STRING" /\ operator \in {"+", "==", "!="}

IsUnknownOperator(e) ==
    /\ IsRaised(e.obj)
    /\ e.obj.msg = "Unknown operator: " \o e.left.type \o " " \o e.operator
                       \o " " \o e.right.type

\* C7 as claimed: operands of one type under an unsupported operator raise
\* Unknown operator, for Boolean and String and equally for NULL, FUNCTION
\* and every other type.
C7_UnknownOperatorEveryType ==
    \A i \in Entries("infix") :
        /\ trace[i].left.type = trace[i].right.type
        /\ ~Supported(trace[i].left.type, trace[i].operator)
        => IsUnknownOperator(trace[i])

\* C7 as amended: Boolean and String operands under an unsupported operator
\* raise Unknown operator; operands of a type that holds no integer, boolean
\* or string (NULL, FUNCTION, BUILTIN, RETURN_VALUE) raise, under every
\* operator, the TypeError "Infix expression values must be integers,
\* booleans, or strings".
C7_UnknownOperatorOrNoValue ==
    \A i \in Entries("infix") :
        /\ trace[i].left.type = trace[i].right.type
        /\ ~Supported(trace[i].left.type, trace[i].operator)
        => IF trace[i].left.type \in {"BOOLEAN", "STRING"}
               THEN /\ IsUnknownOperator(trace[i])
                    /\ trace[i].obj.raised = "SyntaxError"
               ELSE trace[i].obj =
                        [raised |-> "TypeError",
                         msg |-> "Infix expression values must be integers, booleans, or strings"]

C7_Witness ==
    \E i \in Entries("infix") :
        /\ trace[i].operator = "=="
        /\ trace[i].left = NULL
        /\ trace[i].right = NULL
        /\ IsRaised(result)

\* the last if of the history: in IfPrograms, the if of the program
LastIf == trace[CHOOSE i \in Entries("if") : \A j \in Entries("if") : j <= i]

\* C8: the falsy values are exactly FALSE and NULL, for if and for !: an if
\* takes its consequence iff the condition is neither, else its alternative,
\* or yields NULL when it has none; !v is TRUE iff v is FALSE or NULL.
C8_FalsyIsFalseOrNull ==
    /\ \A i \in Entries("if") :
          trace[i].branch = "consequence"
              <=> (trace[i].condition # FALSE_ /\ trace[i].condition # NULL)
    /\ program \in IfPrograms /\ ~IsRaised(result) =>
          LET alt == program.statements[1].expression.alternative
              falsy == LastIf.condition = FALSE_ \/ LastIf.condition = NULL
          IN  result = IF ~falsy THEN String("then")
                       ELSE IF alt # None THEN String("else")
                       ELSE NULL
    /\ \A i \in Entries("prefix") :
          trace[i].operator = "!" =>
              trace[i].obj =
                  IF trace[i].right = FALSE_ \/ trace[i].right = NULL
                      THEN TRUE_
                      ELSE FALSE_

\* if (0) and if ("") take the consequence, a false comparison does not
C8_Witness ==
    /\ program \in IfPrograms
    /\ LastIf.condition \in {Integer(0), String("")}
    /\ result = String("then")

IntegerDivisions ==
    {i \in Entries("infix") :
        /\ trace[i].operator = "/"
        /\ trace[i].left.type = "INTEGER"
        /\ trace[i].right.type = "INTEGER"
        /\ trace[i].right.value # 0}

\* C9 as claimed: a / b is the quotient truncated toward zero.
C9_DivisionTruncates ==
    \A i \in IntegerDivisions :
        trace[i].obj = Integer(TruncDiv(trace[i].left.value,
                                        trace[i].right.value))

\* C9 as amended: a / b is the quotient rounded toward minus infinity: the
\* Integer q with a = q * b + r where r is 0 or has the sign of b and is
\* smaller than b in magnitude.  It is the truncated quotient exactly when
\* the division is exact or the operands have the same sign.
C9_DivisionFloors ==
    \A i \in IntegerDivisions :
        LET a == trace[i].left.value
            b == trace[i].right.value
            q == trace[i].obj.value
            r == a - q * b
        IN  /\ trace[i].obj.type = "INTEGER"
            /\ IF b > 0 THEN 0 <= r /\ r < b ELSE b < r /\ r <= 0
            /\ (q = TruncDiv(a, b)) <=> (r = 0 \/ (a < 0) = (b < 0))

\* -1 / 2 is -1
C9_Witness ==
    \E i \in IntegerDivisions :
        /\ trace[i].left.value < 0
        /\ trace[i].right.value > 1
        /\ trace[i].obj.value * trace[i].right.value < trace[i].left.value
        /\ result = trace[i].obj

(***************************************************************************)
(* Integers of any magnitude.  Integer.value is a Python int, which has no *)
(* fixed width.  The model above keeps its operands small; here an int is   *)
(* written out as a sign and a magnitude in base 2^8, least significant     *)
(* digit first, with no leading zero digit and a zero that is never         *)
(* negative, so that values beyond 64 bits can be computed.                *)
(***************************************************************************)
Base == 2^8

\* the longest evaluation of the wide-integer session, in history entries
MaxOps == 4

RECURSIVE mag_strip(_)
mag_strip(m) ==
    IF m # <<>> /\ m[Len(m)] = 0
        THEN mag_strip(SubSeq(m, 1, Len(m) - 1))
        ELSE m

\* 2^64 - m for a magnitude 0 < m < 2^64, digit i onwards: invert the 8
\* digits and add one
RECURSIVE mag_complement(_, _)
mag_complement(m, i) ==
    IF i > 8 THEN <<>>
    ELSE LET d == IF i <= Len(m) THEN m[i] ELSE 0
             lower == \A j \in 1..(i - 1) : j > Len(m) \/ m[j] = 0
         IN  <<IF lower THEN (Base - d) % Base ELSE Base - 1 - d>>
                 \o mag_complement(m, i + 1)

\* what a host integer of 64 bits would keep of a value: the residue mod
\* 2^64, read in two's complement
Int64(neg, mag) ==
    LET low == mag_strip(SubSeq(mag, 1, IF Len(mag) < 8 THEN Len(mag) ELSE 8))
        u == IF neg /\ low # <<>> THEN mag_strip(mag_complement(low, 1))
                                  ELSE low
        negative == Len(u) = 8 /\ u[8] >= Base \div 2
    IN  IF negative
            THEN [neg |-> TRUE, mag |-> mag_strip(mag_complement(u, 1))]
            ELSE [neg |-> FALSE, mag |-> u]

\* a Python int from a sign and digits
PyInt(neg, mag) ==
    LET m == mag_strip(mag)
    IN  [neg |-> neg /\ m # <<>>, mag |-> m]

RECURSIVE mag_cmp_from(_, _, _)
mag_cmp_from(a, b, i) ==
    IF i = 0 THEN 0
    ELSE IF a[i] < b[i] THEN -1
    ELSE IF a[i] > b[i] THEN 1
    ELSE mag_cmp_from(a, b, i - 1)

mag_cmp(a, b) ==
    IF Len(a) < Len(b) THEN -1
    ELSE IF Len(a) > Len(b) THEN 1
    ELSE mag_cmp_from(a, b, Len(a))

RECURSIVE mag_add(_, _, _)
mag_add(a, b, carry) ==
    IF a = <<>> /\ b = <<>>
        THEN IF carry = 0 THEN <<>> ELSE <<carry>>
        ELSE LET x == IF a = <<>> THEN 0 ELSE Head(a)
                 y == IF b = <<>> THEN 0 ELSE Head(b)
                 s == x + y + carry
             IN  <<s % Base>>
                     \o mag_add(IF a = <<>> THEN a ELSE Tail(a),
                                IF b = <<>> THEN b ELSE Tail(b),
                                s \div Base)

\* a - b for magnitudes a >= b
RECURSIVE mag_sub(_, _, _)
mag_sub(a, b, borrow) ==
    IF a = <<>> THEN <<>>
    ELSE LET y == IF b = <<>> THEN 0 ELSE Head(b)
             s == Head(a) - y - borrow
         IN  <<s % Base>>
                 \o mag_sub(Tail(a), IF b = <<>> THEN b ELSE Tail(b),
                            IF s < 0 THEN 1 ELSE 0)

RECURSIVE mag_mul_digit(_, _, _)
mag_mul_digit(a, d, carry) ==
    IF a = <<>>
        THEN IF carry = 0 THEN <<>> ELSE <<carry>>
        ELSE LET s == Head(a) * d + carry
             IN  <<s % Base>> \o mag_mul_digit(Tail(a), d, s \div Base)

RECURSIVE mag_mul(_, _)
mag_mul(a, b) ==
    IF b = <<>> THEN <<>>
    ELSE mag_add(mag_mul_digit(a, Head(b), 0), <<0>> \o mag_mul(a, Tail(b)), 0)

\* quotient and remainder of a magnitude by a small divisor
RECURSIVE mag_divmod(_, _)
mag_divmod(m, d) ==
    IF m = <<>> THEN [q |-> <<>>, r |-> 0]
    ELSE LET hi == mag_divmod(Tail(m), d)
             cur == hi.r * Base + Head(m)
         IN  [q |-> <<cur \div d>> \o hi.q, r |-> cur % d]

\* -x
int_neg(a) == PyInt(~a.neg, a.mag)

\* lhs + rhs
int_add(a, b) ==
    IF a.neg = b.neg
        THEN PyInt(a.neg, mag_add(a.mag, b.mag, 0))
    ELSE IF mag_cmp(a.mag, b.mag) >= 0
        THEN PyInt(a.neg, mag_sub(a.mag, b.mag, 0))
    ELSE PyInt(b.neg, mag_sub(b.mag, a.mag, 0))

\* lhs - rhs
int_sub(a, b) ==
    IF a.neg # b.neg
        THEN PyInt(a.neg, mag_add(a.mag, b.mag, 0))
    ELSE IF mag_cmp(a.mag, b.mag) >= 0
        THEN PyInt(a.neg, mag_sub(a.mag, b.mag, 0))
    ELSE PyInt(~a.neg, mag_sub(b.mag, a.mag, 0))

\* lhs * rhs
int_mul(a, b) == PyInt(a.neg # b.neg, mag_mul(a.mag, b.mag))

\* int(literal) for a literal of decimal digits, given as its digits: digit
\* by digit from the left, the value so far times ten plus the digit (a
\* leading zero leaves it zero)
RECURSIVE int_from_digits(_, _)
int_from_digits(acc, literal) ==
    IF literal = <<>> THEN acc
    ELSE IF acc.mag = <<>> /\ Head(literal) = 0
        THEN int_from_digits(acc, Tail(literal))
    ELSE int_from_digits(
             PyInt(FALSE, mag_add(mag_mul_digit(acc.mag, 10, 0),
                                  <<Head(literal)>>, 0)),
             Tail(literal))

int(literal) == int_from_digits(PyInt(FALSE, <<>>), literal)

\* str(value)
RECURSIVE mag_str(_)
mag_str(m) ==
    IF m = <<>> THEN ""
    ELSE LET dm == mag_divmod(m, 10)
         IN  mag_str(mag_strip(dm.q)) \o ToString(dm.r)

Integer_str(obj) ==
    IF obj.value.mag = <<>> THEN "0"
    ELSE (IF obj.value.neg THEN "-" ELSE "") \o mag_str(obj.value.mag)

\* Parser._parse_integer_literal and the IntegerLiteral case of evaluate
evaluate_integer_literal(literal) == Integer(int(literal))

\* evaluate_integer_minus_expression on an int of any magnitude
evaluate_integer_minus_expression_wide(right) == Integer(int_neg(right.value))

\* evaluate_integer_infix_expression for + - * on ints of any magnitude
evaluate_integer_infix_expression_wide(operator, left, right) ==
    CASE operator = "+" -> Integer(int_add(left.value, right.value))
      [] operator = "-" -> Integer(int_sub(left.value, right.value))
      [] operator = "*" -> Integer(int_mul(left.value, right.value))
      [] OTHER -> NULL

\* the digits of the integer literals of the session: 0, 1, 007, 2^32,
\* 2^63 - 1 and 2^63
WideLiterals ==
    { <<0>>, <<1>>, <<0, 0, 7>>,
      <<4, 2, 9, 4, 9, 6, 7, 2, 9, 6>>,
      <<9, 2, 2, 3, 3, 7, 2, 0, 3, 6, 8, 5, 4, 7, 7, 5, 8, 0, 7>>,
      <<9, 2, 2, 3, 3, 7, 2, 0, 3, 6, 8, 5, 4, 7, 7, 5, 8, 0, 8>> }

WideOperators == {"+", "-", "*"}

(***************************************************************************)
(* A session of integer arithmetic: the expression ((l0 op l1) op l2) ..., *)
(* with unary minus applied to what has been evaluated so far, evaluated   *)
(* left to right as evaluate does.  result is the value so far, trace the  *)
(* integer values produced.                                                *)
(***************************************************************************)
EvalIntegerLiteral(literal) ==
    /\ Len(trace) + 1 <= MaxOps
    /\ LET obj == evaluate_integer_literal(literal)
       IN  /\ result' = obj
           /\ trace' = Append(trace, [ev |-> "literal", literal |-> literal,
                                      obj |-> obj])
    /\ UNCHANGED <<program, envs, stdin, main>>
    /\ UNCHANGED syntaxVars

EvalMinus ==
    /\ result # None
    /\ Len(trace) + 1 <= MaxOps
    /\ LET obj == evaluate_integer_minus_expression_wide(result)
       IN  /\ result' = obj
           /\ trace' = Append(trace, [ev |-> "prefix", operator |-> "-",
                                      right |-> result, obj |-> obj])
    /\ UNCHANGED <<program, envs, stdin, main>>
    /\ UNCHANGED syntaxVars

EvalInfix(operator, literal) ==
    /\ result # None
    /\ Len(trace) + 2 <= MaxOps
    /\ LET right == evaluate_integer_literal(literal)
           obj == evaluate_integer_infix_expression_wide(operator, result,
                                                         right)
       IN  /\ result' = obj
           /\ trace' = trace \o
                 << [ev |-> "literal", literal |-> literal, obj |-> right],
                    [ev |-> "infix", operator |-> operator, left |-> result,
                     right |-> right, obj |-> obj] >>
    /\ UNCHANGED <<program, envs, stdin, main>>
    /\ UNCHANGED syntaxVars

NextWide ==
    \/ \E literal \in WideLiterals : EvalIntegerLiteral(literal)
    \/ EvalMinus
    \/ \E operator \in WideOperators, literal \in WideLiterals :
           EvalInfix(operator, literal)

SpecWide == Init /\ [][NextWide]_vars

(***************************************************************************)
(* C10                                                                     *)
(***************************************************************************)
\* -1, 0 or 1 as a is below, equal to or above b
Compare(a, b) ==
    IF a.neg # b.neg THEN (IF a.neg THEN -1 ELSE 1)
    ELSE IF a.neg THEN mag_cmp(b.mag, a.mag)
    ELSE mag_cmp(a.mag, b.mag)

Sign(a) == IF a.mag = <<>> THEN 0 ELSE IF a.neg THEN -1 ELSE 1

\* 2^63 as a magnitude
TwoTo63 == <<0, 0, 0, 0, 0, 0, 0, Base \div 2>>

\* -2^63 <= v <= 2^63 - 1
InInt64(v) ==
    \/ mag_cmp(v.mag, TwoTo63) < 0
    \/ v.neg /\ v.mag = TwoTo63

\* the residue of v modulo a small m, from its digits
RECURSIVE MagResidue(_, _)
MagResidue(mag, m) ==
    IF mag = <<>> THEN 0
    ELSE (MagResidue(Tail(mag), m) * Base + Head(mag)) % m

Residue(v, m) ==
    IF v.neg THEN (m - MagResidue(v.mag, m)) % m ELSE MagResidue(v.mag, m)

\* the residue modulo m of the number a decimal literal writes
RECURSIVE LiteralResidue(_, _, _)
LiteralResidue(acc, literal, m) ==
    IF literal = <<>> THEN acc
    ELSE LiteralResidue((acc * 10 + Head(literal)) % m, Tail(literal), m)

\* moduli prime to 2^64, and 10 for the last decimal digit
Moduli == {7, 10, 11}

RECURSIVE DropZeros(_)
DropZeros(literal) ==
    IF Len(literal) > 1 /\ Head(literal) = 0
        THEN DropZeros(Tail(literal))
        ELSE literal

RECURSIVE Text(_)
Text(literal) ==
    IF literal = <<>> THEN ""
    ELSE ToString(Head(literal)) \o Text(Tail(literal))

IntegersProduced == {trace[i].obj : i \in DOMAIN trace}

C11_FewerArgumentsBind ==
    /\ program = UnusedParameterProgram => result = Integer(1)
    /\ program = UsedParameterProgram =>
          result = Raise("NameError", "Unknown identifier y")
    /\ Evaluated /\ IsRaised(result) => result.raised # "IndexError"

(***************************************************************************)
(* C20                                                                     *)
(***************************************************************************)
\* C20: len raises a TypeError unless called with exactly one String, and
\* input raises a TypeError when called with more than one argument or with
\* one argument that is not a String; a call that raises yields no value.
C20_BuiltinsRejectArguments ==
    program \in BuiltinCallPrograms =>
        LET call == program.statements[1].expression
            name == call.function.value
            args == call.arguments
            wrong ==
                IF name = "len"
                    THEN Len(args) # 1 \/ args[1].node # "StringLiteral"
                    ELSE \/ Len(args) > 1
                         \/ Len(args) = 1 /\ args[1].node # "StringLiteral"
        IN  wrong => IsRaised(result) /\ result.raised = "TypeError"

(***************************************************************************)
(* The lexer: src/monk/lexer.py and src/monk/token.py.  A source text is a *)
(* sequence of characters, each a string of length one; "" is what         *)
(* _current_char and _next_char hold beyond the end of the text.  A token  *)
(* literal is the sequence of its characters.  _pos counts from 0 as in    *)
(* the Python code, so code[_pos] is code[pos + 1] here.                   *)
(***************************************************************************)
Token(type, literal) == [type |-> type, literal |-> literal]

\* str.isalpha, str.isdigit, str.isalnum and str.isspace on one character
\* of the ASCII range
Letters ==
    {"a", "b", "c", "d", "e", "f", "g", "h", "i", "j", "k", "l", "m",
     "n", "o", "p", "q", "r", "s", "t", "u", "v", "w", "x", "y", "z",
     "A", "B", "C", "D", "E", "F", "G", "H", "I", "J", "K", "L", "M",
     "N", "O", "P", "Q", "R", "S", "T", "U", "V", "W", "X", "Y", "Z"}

Digits == {"0", "1", "2", "3", "4", "5", "6", "7", "8", "9"}

isalpha(c) == c \in Letters

isdigit(c) == c \in Digits

isalnum(c) == c \in Letters \cup Digits

isspace(c) == c \in {" ", "\t", "\n", "\r", "\f"}

\* the keys of _SINGLE_CHAR_TOKEN_TYPE_MAP
SingleChars ==
    {"=", "+", "-", "*", "/", "(", ")", "{", "}", ";", ",", "<", ">", "!"}

SINGLE_CHAR_TOKEN_TYPE_MAP(c) ==
    CASE c = "=" -> "ASSIGN"
      [] c = "+" -> "PLUS"
      [] c = "-" -> "MINUS"
      [] c = "*" -> "ASTERISK"
      [] c = "/" -> "SLASH"
      [] c = "(" -> "LEFT_PAREN"
      [] c = ")" -> "RIGHT_PAREN"
      [] c = "{" -> "LEFT_BRACE"
      [] c = "}" -> "RIGHT_BRACE"
      [] c = ";" -> "SEMICOLON"
      [] c = "," -> "COMMA"
      [] c = "<" -> "LESSER_THAN"
      [] c = ">" -> "GREATER_THAN"
      [] c = "!" -> "BANG"

lookup_ident(ident) ==
    CASE ident = <<"f", "n">> -> "FUNCTION"
      [] ident = <<"l", "e", "t">> -> "LET"
      [] ident = <<"t", "r", "u", "e">> -> "TRUE"
      [] ident = <<"f", "a", "l", "s", "e">> -> "FALSE"
      [] ident = <<"i", "f">> -> "IF"
      [] ident = <<"e", "l", "s", "e">> -> "ELSE"
      [] ident = <<"r", "e", "t", "u", "r", "n">> -> "RETURN"
      [] OTHER -> "IDENTIFIER"

\* text[a:b] of Python for 0 <= a
Slice(text, a, b) ==
    SubSeq(text, a + 1, IF b < Len(text) THEN b ELSE Len(text))

Lexer_advance(l) ==
    LET pos == l.pos + 1
    IN  IF pos >= Len(l.code)
            THEN [l EXCEPT !.pos = pos, !.current_char = "", !.next_char = ""]
            ELSE [l EXCEPT !.pos = pos,
                           !.current_char = l.code[pos + 1],
                           !.next_char = IF pos + 1 < Len(l.code)
                                             THEN l.code[pos + 2]
                                             ELSE ""]

\* Lexer.__init__
Lexer(text) ==
    Lexer_advance([code |-> text, pos |-> -1, current_char |-> "",
                   next_char |-> ""])

RECURSIVE Lexer_eat_whitespace(_)
Lexer_eat_whitespace(l) ==
    IF isspace(l.current_char)
        THEN Lexer_eat_whitespace(Lexer_advance(l))
        ELSE l

\* while self._next_char.isalnum(): self._advance()
RECURSIVE Lexer_eat_ident_loop(_)
Lexer_eat_ident_loop(l) ==
    IF isalnum(l.next_char)
        THEN Lexer_eat_ident_loop(Lexer_advance(l))
        ELSE l

\* the Lexer after the call, and the string returned
Lexer_eat_ident(l) ==
    LET l1 == Lexer_eat_ident_loop(l)
    IN  [lexer |-> l1, literal |-> Slice(l.code, l.pos, l1.pos + 1)]

RECURSIVE Lexer_eat_int_loop(_)
Lexer_eat_int_loop(l) ==
    IF isdigit(l.next_char)
        THEN Lexer_eat_int_loop(Lexer_advance(l))
        ELSE l

Lexer_eat_int(l) ==
    LET l1 == Lexer_eat_int_loop(l)
    IN  [lexer |-> l1, literal |-> Slice(l.code, l.pos, l1.pos + 1)]

\* while self._next_char not in ('"', ""): self._advance()
RECURSIVE Lexer_eat_string_loop(_)
Lexer_eat_string_loop(l) ==
    IF l.next_char \notin {"\"", ""}
        THEN Lexer_eat_string_loop(Lexer_advance(l))
        ELSE l

\* _eat_string without its test for the empty string
Lexer_eat_string_nonempty(l) ==
    LET l1 == Lexer_advance(l)
        l2 == Lexer_advance(Lexer_eat_string_loop(l1))
    IN  [lexer |-> l2, literal |-> Slice(l.code, l1.pos, l2.pos)]

Lexer_eat_string(l) ==
    LET l1 == Lexer_advance(l)
    IN  IF l1.current_char = "\""
            THEN [lexer |-> l1, literal |-> <<>>]
            ELSE LET l2 == Lexer_advance(Lexer_eat_string_loop(l1))
                 IN  [lexer |-> l2, literal |-> Slice(l.code, l1.pos, l2.pos)]

\* the match statement of Lexer.__next__: the Lexer after it and the token
\* it chose
Lexer_match(l) ==
    LET c == l.current_char
    IN  IF c = "=" /\ l.next_char = "="
            THEN [lexer |-> Lexer_advance(Lexer_advance(l)),
                  token |-> Token("EQUAL", <<"=", "=">>)]
        ELSE IF c = "!" /\ l.next_char = "="
            THEN [lexer |-> Lexer_advance(Lexer_advance(l)),
                  token |-> Token("NOT_EQUAL", <<"!", "=">>)]
        ELSE IF c = "\""
            THEN LET r == Lexer_eat_string(l)
                 IN  [lexer |-> r.lexer, token |-> Token("STRING", r.literal)]
        ELSE IF c \in SingleChars
            THEN [lexer |-> l,
                  token |-> Token(SINGLE_CHAR_TOKEN_TYPE_MAP(c), <<c>>)]
        ELSE IF isalpha(c)
            THEN LET r == Lexer_eat_ident(l)
                 IN  [lexer |-> r.lexer,
                      token |-> Token(lookup_ident(r.literal), r.literal)]
        ELSE IF isdigit(c)
            THEN LET r == Lexer_eat_int(l)
                 IN  [lexer |-> r.lexer, token |-> Token("INTEGER", r.literal)]
        ELSE IF c = ""
            THEN [lexer |-> l, token |-> Token("END_OF_FILE", <<>>)]
        ELSE [lexer |-> l, token |-> Token("ILLEGAL", <<c>>)]

\* __next__ without the self._advance() that follows the match statement
Lexer_next_no_advance(l) == Lexer_match(Lexer_eat_whitespace(l))

\* Lexer.__next__: the Lexer after the call, and the token returned.  The
\* end-of-file case returns inside the match statement; every other case
\* goes on to self._advance()
Lexer_next(l) ==
    LET r == Lexer_match(Lexer_eat_whitespace(l))
    IN  IF r.token.type = "END_OF_FILE"
            THEN r
            ELSE [lexer |-> Lexer_advance(r.lexer), token |-> r.token]

(***************************************************************************)
(* The source texts given to the lexer: every text of up to MaxCodeLen     *)
(* characters over a small alphabet, and some longer ones.                 *)
(***************************************************************************)
MaxCodeLen == 3

\* how often next(lexer) is called again after it has returned END_OF_FILE
MaxEOFs == 2

LexerAlphabet == {"=", "!", "\"", "_", "a", "1", " ", ";"}

Texts(n) == UNION {[1..k -> LexerAlphabet] : k \in 0..n}

LexerWords ==
    { <<"f", "n">>, <<"l", "e", "t">>, <<"t", "r", "u", "e">>,
      <<"f", "a", "l", "s", "e">>, <<"i", "f">>, <<"e", "l", "s", "e">>,
      <<"r", "e", "t", "u", "r", "n">>,
      <<"l", "e", "t", "x">>, <<"f", "n", "1">>, <<"I", "f">>,
      <<"_", "x">>, <<"x", "_", "y">>, <<"x", "1", "y">> }

\* let x = 5; !5 != 10;    ===    "a b    1==1
LexerTexts ==
    { <<"l", "e", "t", " ", "x", " ", "=", " ", "5", ";", " ",
        "!", "5", " ", "!", "=", " ", "1", "0", ";">>,
      <<"=", "=", "=">>,
      <<"\"", "a", " ", "b">>,
      <<"1", "=", "=", "1">>,
      <<"\"", "a", " ", "b", "\"", "\n", "\t", "x">> }

LexerSources == Texts(MaxCodeLen) \cup LexerWords \cup LexerTexts

\* nothing has been evaluated
NoEvaluation ==
    /\ program = NoProgram
    /\ envs = <<Environment(0)>>
    /\ stdin = StdinLines
    /\ result = None
    /\ trace = <<>>
    /\ main = None

\* lexer = Lexer(code)
InitLexer ==
    /\ NoEvaluation
    /\ code \in LexerSources
    /\ lexer = Lexer(code)
    /\ tokens = <<>>
    /\ written = None
    /\ parsed = None
    /\ printed = None
    /\ reparsed = None

EOFs == {i \in DOMAIN tokens : tokens[i].token.type = "END_OF_FILE"}

\* next(lexer)
NextToken ==
    /\ Cardinality(EOFs) < MaxEOFs
    /\ Len(tokens) < Len(code) + MaxEOFs
    /\ LET r == Lexer_next(lexer)
       IN  /\ lexer' = r.lexer
           /\ tokens' = Append(tokens, [token |-> r.token, before |-> lexer,
                                        after |-> r.lexer])
    /\ UNCHANGED <<code, written, parsed, printed, reparsed>>
    /\ UNCHANGED evalVars

NextLexer == NextToken

SpecLexer == InitLexer /\ [][NextLexer]_vars

(***************************************************************************)
(* C17, C18, C19: the lexer                                                *)
(***************************************************************************)
NonEOFs == DOMAIN tokens \ EOFs

\* C17: repeated calls of next(lexer) return finitely many tokens other than
\* END_OF_FILE, at most one per character of the text, each call consuming
\* at least one character; then END_OF_FILE, and END_OF_FILE again on every
\* later call, which leaves the Lexer as it was.
C17_LexerReachesEOF ==
    /\ \A i \in NonEOFs :
          /\ tokens[i].before.pos < Len(code)
          /\ tokens[i].after.pos > tokens[i].before.pos
          /\ \A j \in 1..i : j \in NonEOFs
    /\ \A i \in EOFs :
          /\ \A j \in i..Len(tokens) : j \in EOFs
          /\ i - 1 \in EOFs => tokens[i].after = tokens[i].before
    /\ Cardinality(NonEOFs) <= Len(code)
    /\ Len(tokens) > Len(code) =>
          tokens[Len(tokens)].token.type = "END_OF_FILE"

\* "a b ends inside a string: one STRING token, then END_OF_FILE twice
C17_Witness ==
    /\ code = <<"\"", "a", " ", "b">>
    /\ Len(tokens) = 3
    /\ tokens[1].token = Token("STRING", <<"a", " ", "b">>)
    /\ EOFs = {2, 3}
    /\ lexer = tokens[2].before

\* a letter or an underscore, then letters and digits
IsWord(text) ==
    /\ text # <<>>
    /\ isalpha(text[1]) \/ text[1] = "_"
    /\ \A i \in 2..Len(text) : isalnum(text[i])

Keywords ==
    { <<"f", "n">>, <<"l", "e", "t">>, <<"t", "r", "u", "e">>,
      <<"f", "a", "l", "s", "e">>, <<"i", "f">>, <<"e", "l", "s", "e">>,
      <<"r", "e", "t", "u", "r", "n">> }

\* C18: a text that is one word (a letter or an underscore, then letters and
\* digits) is lexed as one token whose literal is the word, of a keyword
\* type if the word is one of the seven keywords and IDENTIFIER otherwise;
\* so _x is one IDENTIFIER token.
C18_WordIsOneToken ==
    IsWord(code) /\ tokens # <<>> =>
        /\ tokens[1].token.literal = code
        /\ tokens[1].token.type # "ILLEGAL"
        /\ tokens[1].token.type = "IDENTIFIER" <=> code \notin Keywords

\* C19: at an = or ! that is followed by =, next(lexer) returns one EQUAL or
\* NOT_EQUAL token and consumes these two characters; at any other = or !
\* it returns ASSIGN or BANG and consumes one; so === is EQUAL, ASSIGN.
C19_TwoCharacterOperators ==
    /\ \A i \in DOMAIN tokens :
          LET at == Lexer_eat_whitespace(tokens[i].before)
              c == at.current_char
          IN  c \in {"=", "!"} =>
                  IF at.next_char = "="
                      THEN /\ tokens[i].token =
                                Token(IF c = "=" THEN "EQUAL" ELSE "NOT_EQUAL",
                                      <<c, "=">>)
                           /\ tokens[i].after.pos = at.pos + 2
                      ELSE /\ tokens[i].token =
                                Token(IF c = "=" THEN "ASSIGN" ELSE "BANG",
                                      <<c>>)
                           /\ tokens[i].after.pos = at.pos + 1
    /\ code = <<"=", "=", "=">> /\ Len(tokens) >= 2 =>
          tokens[2].token = Token("ASSIGN", <<"=">>)

(***************************************************************************)
(* The parser: src/monk/parser.py.  The parser's state ps is its           *)
(* TokenIterator: the current and the next token and the Lexer they come   *)
(* from.  A parsing method is an operator from the state it is called in   *)
(* to the state it leaves and the node it returns, or the exception it     *)
(* raises:  [ps |-> ..., node |-> ...].  A node is the record of ast.py    *)
(* together with its token.  Names, operators and string values are        *)
(* sequences of characters, as token literals are.                         *)
(***************************************************************************)
Precedence ==
    [LOWEST |-> 1, EQUALS |-> 2, LESSGREATER |-> 3, SUM |-> 4, PRODUCT |-> 5,
     PREFIX |-> 6, CALL |-> 7]

\* _PRECEDENCES.get(type, Precedence.LOWEST)
PRECEDENCES(type) ==
    CASE type \in {"EQUAL", "NOT_EQUAL"} -> Precedence.EQUALS
      [] type \in {"LESSER_THAN", "GREATER_THAN"} -> Precedence.LESSGREATER
      [] type \in {"PLUS", "MINUS"} -> Precedence.SUM
      [] type \in {"SLASH", "ASTERISK"} -> Precedence.PRODUCT
      [] type = "LEFT_PAREN" -> Precedence.CALL
      [] OTHER -> Precedence.LOWEST

\* the keys of _prefix_parse_fns and of _infix_parse_fns
PrefixTypes ==
    {"IDENTIFIER", "INTEGER", "STRING", "FUNCTION", "BANG", "MINUS", "TRUE",
     "FALSE", "LEFT_PAREN", "IF"}

InfixTypes ==
    {"EQUAL", "NOT_EQUAL", "LESSER_THAN", "GREATER_THAN", "PLUS", "MINUS",
     "SLASH", "ASTERISK", "LEFT_PAREN"}

\* a dataclass of ast.py: its token and its other fields
WithToken(token, fields) == ("token" :> token) @@ fields

PR(ps, node) == [ps |-> ps, node |-> node]

\* the element of a one-element set
The(S) == CHOOSE v \in S : TRUE

\* F of the value of r, with r evaluated once
Bind(r, F(_)) == The({F(x) : x \in {r}})

\* F of what the call r returned, or the exception r raised: an exception
\* leaves the method that made the call
Try(r, F(_)) == The({IF IsRaised(x.node) THEN x ELSE F(x) : x \in {r}})

RECURSIVE Parser_call(_, _, _)
\* a call of self._tokens.advance()
TokenIterator_advance(ps) == Parser_call("advance", ps, Precedence.LOWEST)

\* TokenIterator.advance: next becomes current, next(self._lexer) next
advance(ps) ==
    Bind(Lexer_next(ps.lexer), LAMBDA r :
         [lexer |-> r.lexer, current |-> ps.next, next |-> r.token])

\* TokenIterator.__init__
TokenIterator(l) ==
    Bind(TokenIterator_advance([lexer |-> l,
                                current |-> Token("ILLEGAL", <<>>),
                                next |-> Token("ILLEGAL", <<>>)]),
         LAMBDA ps : TokenIterator_advance(ps))

\* expect_next that advances whatever the next token is
expect_next_unchecked(ps, t) == PR(TokenIterator_advance(ps), None)

\* TokenIterator.expect_next: advances, or raises SyntaxError
expect_next(ps, t) ==
    IF ps.next.type # t
        THEN PR(ps, Raise("SyntaxError",
                          "Expected next token to be TokenType." \o t
                              \o ", got TokenType." \o ps.next.type))
        ELSE PR(TokenIterator_advance(ps), None)

current_precedence(ps) == PRECEDENCES(ps.current.type)

next_precedence(ps) == PRECEDENCES(ps.next.type)

DigitValue(c) ==
    CASE c = "0" -> 0 [] c = "1" -> 1 [] c = "2" -> 2 [] c = "3" -> 3
      [] c = "4" -> 4 [] c = "5" -> 5 [] c = "6" -> 6 [] c = "7" -> 7
      [] c = "8" -> 8 [] c = "9" -> 9

parse_identifier(ps) ==
    PR(ps, WithToken(ps.current, Identifier(ps.current.literal)))

\* IntegerLiteral(current, int(current.literal))
parse_integer_literal(ps) ==
    PR(ps, WithToken(ps.current,
                     IntegerLiteral(int([i \in DOMAIN ps.current.literal |->
                                            DigitValue(ps.current.literal[i])]))))

parse_boolean(ps) ==
    PR(ps, WithToken(ps.current, BooleanLiteral(ps.current.type = "TRUE")))

parse_string_literal(ps) ==
    PR(ps, WithToken(ps.current, StringLiteral(ps.current.literal)))

RECURSIVE parse_expression_loop(_, _, _)
RECURSIVE parse_block_statement_loop(_, _)
RECURSIVE parse_call_arguments_loop(_, _)
RECURSIVE parse_function_parameters_loop(_, _)

\* a call of self._parse_expression(precedence)
parse_expression(ps, precedence) ==
    Parser_call("_parse_expression", ps, precedence)

\* a call of self._parse_statement()
parse_statement(ps) ==
    Parser_call("_parse_statement", ps, Precedence.LOWEST)

parse_prefix_expression(ps) ==
    Bind(TokenIterator_advance(ps), LAMBDA ps1 :
    Try(parse_expression(ps1, Precedence.PREFIX), LAMBDA right :
    PR(right.ps, WithToken(ps.current,
                           PrefixExpression(ps.current.literal, right.node)))))

\* the right operand parsed one level lower: operators of one level would
\* associate to the right
parse_infix_expression_lower(ps, left) ==
    Bind(TokenIterator_advance(ps), LAMBDA ps1 :
    Try(parse_expression(ps1, current_precedence(ps) - 1), LAMBDA right :
    PR(right.ps, WithToken(ps.current,
                           InfixExpression(left, ps.current.literal,
                                           right.node)))))

\* precedence is read before the advance; the right operand is parsed at
\* the operator's own precedence
parse_infix_expression(ps, left) ==
    Bind(TokenIterator_advance(ps), LAMBDA ps1 :
    Try(parse_expression(ps1, current_precedence(ps)), LAMBDA right :
    PR(right.ps, WithToken(ps.current,
                           InfixExpression(left, ps.current.literal,
                                           right.node)))))

parse_grouped_expression(ps) ==
    Bind(TokenIterator_advance(ps), LAMBDA ps1 :
    Try(parse_expression(ps1, Precedence.LOWEST), LAMBDA expr :
    Try(expect_next(expr.ps, "RIGHT_PAREN"), LAMBDA e :
    PR(e.ps, expr.node))))

\* while current is neither } nor END_OF_FILE: a statement, then advance
parse_block_statement_loop(ps, statements) ==
    IF ps.current.type \in {"RIGHT_BRACE", "END_OF_FILE"}
        THEN [ps |-> ps, node |-> None, nodes |-> statements]
        ELSE Try(parse_statement(ps), LAMBDA st :
             Bind(TokenIterator_advance(st.ps), LAMBDA ps1 :
             parse_block_statement_loop(ps1, Append(statements, st.node))))

parse_block_statement(ps) ==
    Bind(TokenIterator_advance(ps), LAMBDA ps1 :
    Try(parse_block_statement_loop(ps1, <<>>), LAMBDA body :
    PR(body.ps, WithToken(ps.current, BlockStatement(body.nodes)))))

\* the alternative of an if-expression whose consequence has been parsed
parse_if_alternative(ps) ==
    IF ps.next.type # "ELSE"
        THEN PR(ps, None)
        ELSE Bind(TokenIterator_advance(ps), LAMBDA ps1 :
             Try(expect_next(ps1, "LEFT_BRACE"), LAMBDA e :
             parse_block_statement(e.ps)))

parse_if_expression(ps) ==
    Try(expect_next(ps, "LEFT_PAREN"), LAMBDA e1 :
    Bind(TokenIterator_advance(e1.ps), LAMBDA ps1 :
    Try(parse_expression(ps1, Precedence.LOWEST), LAMBDA condition :
    Try(expect_next(condition.ps, "RIGHT_PAREN"), LAMBDA e2 :
    Try(expect_next(e2.ps, "LEFT_BRACE"), LAMBDA e3 :
    Try(parse_block_statement(e3.ps), LAMBDA consequence :
    Try(parse_if_alternative(consequence.ps), LAMBDA alternative :
    PR(alternative.ps,
       WithToken(ps.current,
                 IfExpression(condition.node, consequence.node,
                              alternative.node))))))))))

\* while next is a comma: advance twice, one more identifier
parse_function_parameters_loop(ps, params) ==
    IF ps.next.type = "COMMA"
        THEN Bind(TokenIterator_advance(ps), LAMBDA ps1 :
             Bind(TokenIterator_advance(ps1), LAMBDA ps2 :
             parse_function_parameters_loop(
                 ps2, Append(params, parse_identifier(ps2).node))))
        ELSE [ps |-> ps, node |-> None, nodes |-> params]

parse_function_parameters(ps) ==
    IF ps.next.type = "RIGHT_PAREN"
        THEN [ps |-> TokenIterator_advance(ps), node |-> None, nodes |-> <<>>]
        ELSE Bind(TokenIterator_advance(ps), LAMBDA ps1 :
             Bind(parse_function_parameters_loop(
                      ps1, <<parse_identifier(ps1).node>>), LAMBDA params :
             Bind(expect_next(params.ps, "RIGHT_PAREN"), LAMBDA e :
             [ps |-> e.ps, node |-> e.node, nodes |-> params.nodes])))

parse_function_literal(ps) ==
    Try(expect_next(ps, "LEFT_PAREN"), LAMBDA e1 :
    Try(parse_function_parameters(e1.ps), LAMBDA params :
    Try(expect_next(params.ps, "LEFT_BRACE"), LAMBDA e2 :
    Try(parse_block_statement(e2.ps), LAMBDA body :
    PR(body.ps, WithToken(ps.current,
                          FunctionLiteral(params.nodes, body.node)))))))

\* while next is a comma: advance twice, one more expression
parse_call_arguments_loop(ps, args) ==
    IF ps.next.type = "COMMA"
        THEN Bind(TokenIterator_advance(ps), LAMBDA ps1 :
             Bind(TokenIterator_advance(ps1), LAMBDA ps2 :
             Try(parse_expression(ps2, Precedence.LOWEST), LAMBDA arg :
             parse_call_arguments_loop(arg.ps, Append(args, arg.node)))))
        ELSE [ps |-> ps, node |-> None, nodes |-> args]

parse_call_arguments(ps) ==
    IF ps.next.type = "RIGHT_PAREN"
        THEN [ps |-> TokenIterator_advance(ps), node |-> None, nodes |-> <<>>]
        ELSE Bind(TokenIterator_advance(ps), LAMBDA ps1 :
             Try(parse_expression(ps1, Precedence.LOWEST), LAMBDA first :
             Try(parse_call_arguments_loop(first.ps, <<first.node>>),
                 LAMBDA args :
             Bind(expect_next(args.ps, "RIGHT_PAREN"), LAMBDA e :
             [ps |-> e.ps, node |-> e.node, nodes |-> args.nodes]))))

\* a call of any expression
parse_call_expression_any(ps, fn) ==
    Try(parse_call_arguments(ps), LAMBDA args :
    PR(args.ps, WithToken(ps.current, CallExpression(fn, args.nodes))))

parse_call_expression(ps, fn) ==
    IF fn.node \notin {"Identifier", "FunctionLiteral"}
        THEN PR(ps, Raise("TypeError",
                "Expected identifier or function literal for function call"))
        ELSE Try(parse_call_arguments(ps), LAMBDA args :
             PR(args.ps, WithToken(ps.current,
                                   CallExpression(fn, args.nodes))))

\* self._prefix_parse_fns[type]()
prefix_fn(ps) ==
    CASE ps.current.type = "IDENTIFIER" -> parse_identifier(ps)
      [] ps.current.type = "INTEGER" -> parse_integer_literal(ps)
      [] ps.current.type = "STRING" -> parse_string_literal(ps)
      [] ps.current.type = "FUNCTION" -> parse_function_literal(ps)
      [] ps.current.type \in {"BANG", "MINUS"} -> parse_prefix_expression(ps)
      [] ps.current.type \in {"TRUE", "FALSE"} -> parse_boolean(ps)
      [] ps.current.type = "LEFT_PAREN" -> parse_grouped_expression(ps)
      [] ps.current.type = "IF" -> parse_if_expression(ps)

\* self._infix_parse_fns[type](left)
infix_fn(ps, left) ==
    IF ps.current.type = "LEFT_PAREN"
        THEN parse_call_expression(ps, left)
        ELSE parse_infix_expression(ps, left)

\* while next is not ; and precedence < next precedence
parse_expression_loop(ps, precedence, left) ==
    IF ps.next.type # "SEMICOLON" /\ precedence < next_precedence(ps)
        THEN IF ps.next.type \notin InfixTypes
                 THEN PR(ps, left)
                 ELSE Bind(TokenIterator_advance(ps), LAMBDA ps1 :
                      Try(infix_fn(ps1, left), LAMBDA r :
                      parse_expression_loop(r.ps, precedence, r.node)))
        ELSE PR(ps, left)

Parser_parse_expression(ps, precedence) ==
    IF ps.current.type \notin PrefixTypes
        THEN PR(ps, Raise("SyntaxError",
                          "No prefix parse function for TokenType."
                              \o ps.current.type))
        ELSE Bind(precedence, LAMBDA p :
             Try(prefix_fn(ps), LAMBDA left :
             parse_expression_loop(left.ps, p, left.node)))

parse_let_statement(ps) ==
    Try(expect_next(ps, "IDENTIFIER"), LAMBDA e1 :
    Try(expect_next(e1.ps, "ASSIGN"), LAMBDA e2 :
    Bind(TokenIterator_advance(e2.ps), LAMBDA ps1 :
    Try(parse_expression(ps1, Precedence.LOWEST), LAMBDA value :
    Try(expect_next(value.ps, "SEMICOLON"), LAMBDA e3 :
    PR(e3.ps, WithToken(ps.current,
                        LetStatement(parse_identifier(e1.ps).node,
                                     value.node))))))))

parse_return_statement(ps) ==
    Bind(TokenIterator_advance(ps), LAMBDA ps1 :
    Try(parse_expression(ps1, Precedence.LOWEST), LAMBDA value :
    Try(expect_next(value.ps, "SEMICOLON"), LAMBDA e :
    PR(e.ps, WithToken(ps.current, ReturnStatement(value.node))))))

\* the token stored is the current one once the expression has been parsed
\* and a following semicolon stepped onto
parse_expression_statement(ps) ==
    Try(parse_expression(ps, Precedence.LOWEST), LAMBDA expr :
    Bind(IF expr.ps.next.type = "SEMICOLON"
             THEN TokenIterator_advance(expr.ps)
             ELSE expr.ps, LAMBDA ps1 :
    PR(ps1, WithToken(ps1.current, ExpressionStatement(expr.node)))))

Parser_parse_statement(ps) ==
    CASE ps.current.type = "LET" -> parse_let_statement(ps)
      [] ps.current.type = "RETURN" -> parse_return_statement(ps)
      [] OTHER -> parse_expression_statement(ps)

\* the methods that the parsing methods call
Parser_call(method, ps, precedence) ==
    CASE method = "_parse_expression" ->
             Parser_parse_expression(ps, precedence)
      [] method = "_parse_statement" -> Parser_parse_statement(ps)
      [] method = "advance" -> advance(ps)

\* while current is not END_OF_FILE: a statement, then advance
RECURSIVE parse_program_loop(_, _)
parse_program_loop(ps, statements) ==
    IF ps.current.type = "END_OF_FILE"
        THEN PR(ps, Program(statements))
        ELSE Try(parse_statement(ps), LAMBDA st :
             Bind(TokenIterator_advance(st.ps), LAMBDA ps1 :
             parse_program_loop(ps1, Append(statements, st.node))))

\* Parser(lexer).parse_program()
parse_program(l) ==
    Bind(TokenIterator(l), LAMBDA ps : parse_program_loop(ps, <<>>))

(***************************************************************************)
(* Printing: the __str__ methods of src/monk/ast.py and join_commas of     *)
(* src/monk/utils.py.  A printed text is a sequence of characters, the     *)
(* form the Lexer reads.                                                   *)
(***************************************************************************)
RECURSIVE join(_, _)
\* sep.join(texts)
join(sep, texts) ==
    IF texts = <<>> THEN <<>>
    ELSE IF Len(texts) = 1 THEN texts[1]
    ELSE texts[1] \o sep \o join(sep, Tail(texts))

\* f"{self.token_literal}": the method is formatted, not called; Python
\* prints the bound method, "<bound method ... of " followed by the repr of
\* the node and ">".  The repr of the node is written "FunctionLiteral(...)"
bound_method_token_literal ==
    <<"<", "b", "o", "u", "n", "d", " ", "m", "e", "t", "h", "o",
      "d", " ", "F", "u", "n", "c", "t", "i", "o", "n", "L", "i",
      "t", "e", "r", "a", "l", ".", "t", "o", "k", "e", "n", "_",
      "l", "i", "t", "e", "r", "a", "l", " ", "o", "f", " ", "F",
      "u", "n", "c", "t", "i", "o", "n", "L", "i", "t", "e", "r",
      "a", "l", "(", ".", ".", ".", ")", ">">>

RECURSIVE node_str(_)
node_str(n) ==
    CASE n.node = "Program" ->
             join(<<"\n">>, [i \in DOMAIN n.statements |->
                                node_str(n.statements[i])])
      [] n.node = "LetStatement" ->
             n.token.literal \o <<" ">> \o n.name.value \o <<" ", "=", " ">>
                 \o node_str(n.value) \o <<";">>
      [] n.node = "ReturnStatement" ->
             n.token.literal \o <<" ">> \o node_str(n.value)
      [] n.node = "ExpressionStatement" ->
             node_str(n.expression) \o <<";">>
      [] n.node = "BlockStatement" ->
             <<"{", "\n", " ", " ", " ", " ">>
                 \o join(<<"\n", " ", " ", " ", " ">>,
                         [i \in DOMAIN n.statements |->
                             node_str(n.statements[i])])
                 \o <<"\n", "}">>
      [] n.node = "Identifier" -> n.value
      [] n.node \in {"IntegerLiteral", "BooleanLiteral"} -> n.token.literal
      [] n.node = "StringLiteral" -> <<"\"">> \o n.value \o <<"\"">>
      [] n.node = "FunctionLiteral" ->
             bound_method_token_literal \o <<"(">>
                 \o join(<<",", " ">>, [i \in DOMAIN n.parameters |->
                                        node_str(n.parameters[i])])
                 \o <<")", " ">> \o node_str(n.body)
      [] n.node = "PrefixExpression" ->
             <<"(">> \o n.operator \o node_str(n.right) \o <<")">>
      [] n.node = "InfixExpression" ->
             <<"(">> \o node_str(n.left) \o <<" ">> \o n.operator \o <<" ">>
                 \o node_str(n.right) \o <<")">>
      [] n.node = "IfExpression" ->
             <<"i", "f", " ">> \o node_str(n.condition) \o <<" ">>
                 \o node_str(n.consequence)
                 \o (IF n.alternative = None THEN <<>>
                     ELSE <<" ", "e", "l", "s", "e", " ">>
                              \o node_str(n.alternative))
      [] n.node = "CallExpression" ->
             node_str(n.function) \o <<"(">>
                 \o join(<<",", " ">>, [i \in DOMAIN n.arguments |->
                                        node_str(n.arguments[i])])
                 \o <<")">>

(***************************************************************************)
(* The sources parsed.  An expression source is written from a tree: the   *)
(* text of the tree with the parentheses the precedence table makes        *)
(* necessary and no others, one blank on each side of a binary operator    *)
(* and a semicolon at the end.  A statement source is one of the texts     *)
(* below.  A source is a sequence of such items, its code their texts      *)
(* joined by blanks; every item but the last is closed (a later item       *)
(* cannot be read as a continuation of it).                                *)
(***************************************************************************)
MaxOperators == 2

MaxTexts == 2

PrefixLiterals == {<<"!">>, <<"-">>}

InfixLiterals ==
    {<<"=", "=">>, <<"!", "=">>, <<"<">>, <<">">>, <<"+">>, <<"-">>,
     <<"*">>, <<"/">>}

\* the i-th leaf of a tree, from the left: a, 1, b, 2, a, ...
LeafTable ==
    <<[node |-> Identifier(<<"a">>), text |-> <<"a">>],
      [node |-> IntegerLiteral(int(<<1>>)), text |-> <<"1">>],
      [node |-> Identifier(<<"b">>), text |-> <<"b">>],
      [node |-> IntegerLiteral(int(<<2>>)), text |-> <<"2">>]>>

LeafAt(i) == LeafTable[((i - 1) % Len(LeafTable)) + 1]

IsLeaf(t) == t.node \in {"Identifier", "IntegerLiteral"}

RECURSIVE Leaves(_)
Leaves(t) ==
    CASE IsLeaf(t) -> 1
      [] t.node = "PrefixExpression" -> Leaves(t.right)
      [] t.node = "InfixExpression" -> Leaves(t.left) + Leaves(t.right)
      [] t.node = "CallExpression" ->
             Leaves(t.function)
                 + (IF t.arguments = <<>> THEN 0 ELSE Leaves(t.arguments[1]))

RECURSIVE Exprs(_, _)
\* the trees of k operators (prefix, binary, call of no or one argument)
\* whose leaves are the i-th leaf onwards
Exprs(k, i) ==
    IF k = 0 THEN {LeafAt(i).node}
    ELSE {PrefixExpression(op, r) : op \in PrefixLiterals,
                                    r \in Exprs(k - 1, i)}
         \cup {CallExpression(f, <<>>) : f \in Exprs(k - 1, i)}
         \cup UNION {UNION {
                  {InfixExpression(l, op, r) :
                       op \in InfixLiterals,
                       r \in Exprs(k - 1 - kl, i + Leaves(l))}
                  \cup {CallExpression(l, <<r>>) :
                            r \in Exprs(k - 1 - kl, i + Leaves(l))}
                  : l \in Exprs(kl, i)} : kl \in 0..(k - 1)}

Trees == UNION {Exprs(k, 1) : k \in 0..MaxOperators}

\* the level of the precedence table a tree stands on; a leaf above all
Level(t) ==
    CASE IsLeaf(t) -> Precedence.CALL + 1
      [] t.node = "CallExpression" -> Precedence.CALL
      [] t.node = "PrefixExpression" -> Precedence.PREFIX
      [] t.node = "InfixExpression" ->
             CASE t.operator \in {<<"*">>, <<"/">>} -> Precedence.PRODUCT
               [] t.operator \in {<<"+">>, <<"-">>} -> Precedence.SUM
               [] t.operator \in {<<"<">>, <<">">>} -> Precedence.LESSGREATER
               [] OTHER -> Precedence.EQUALS

LeafText(t) ==
    LET i == CHOOSE j \in DOMAIN LeafTable : LeafTable[j].node.node = t.node
                                             /\ LeafTable[j].node = t
    IN  LeafTable[i].text

RECURSIVE Render(_)
RECURSIVE RenderIf(_, _)
\* the text of a tree, in parentheses if paren
RenderIf(t, paren) ==
    IF paren THEN <<"(">> \o Render(t) \o <<")">> ELSE Render(t)

\* a subtree is put in parentheses where the table would otherwise group
\* differently: an operand of a lower level, a right operand of the same
\* level, any operator as the operand of a call's function
Render(t) ==
    CASE IsLeaf(t) -> LeafText(t)
      [] t.node = "PrefixExpression" ->
             t.operator \o RenderIf(t.right, Level(t.right) < Level(t))
      [] t.node = "InfixExpression" ->
             RenderIf(t.left, Level(t.left) < Level(t))
                 \o <<" ">> \o t.operator \o <<" ">>
                 \o RenderIf(t.right, Level(t.right) <= Level(t))
      [] t.node = "CallExpression" ->
             RenderIf(t.function, Level(t.function) < Level(t))
                 \o <<"(">>
                 \o (IF t.arguments = <<>> THEN <<>>
                     ELSE Render(t.arguments[1]))
                 \o <<")">>

ExpressionSources ==
    {<<[text |-> Render(t) \o <<";">>, tree |-> t, kind |-> "expression",
        closed |-> TRUE]>> : t \in Trees}

\* let a = 1;
LetText ==
    [text |->
        <<"l", "e", "t", " ", "a", " ", "=", " ", "1", ";">>,
     tree |-> None, kind |-> "let", closed |-> TRUE]

\* return a;
ReturnText ==
    [text |->
        <<"r", "e", "t", "u", "r", "n", " ", "a", ";">>,
     tree |-> None, kind |-> "return", closed |-> TRUE]

\* a + 1;
InfixText ==
    [text |->
        <<"a", " ", "+", " ", "1", ";">>,
     tree |-> None, kind |-> "expression", closed |-> TRUE]

\* if (a) { 1 } else { b };
IfElseText ==
    [text |->
        <<"i", "f", " ", "(", "a", ")", " ", "{", " ", "1", " ", "}", " ", "e",
          "l", "s", "e", " ", "{", " ", "b", " ", "}", ";">>,
     tree |-> None, kind |-> "expression", closed |-> TRUE]

\* fn(a) { a }(1);
FunctionCallText ==
    [text |->
        <<"f", "n", "(", "a", ")", " ", "{", " ", "a", " ", "}", "(", "1", ")",
          ";">>,
     tree |-> None, kind |-> "expression", closed |-> TRUE]

\* a
OpenText ==
    [text |->
        <<"a">>,
     tree |-> None, kind |-> "expression", closed |-> FALSE]

\* if (a < 1) { a }
OpenIfText ==
    [text |->
        <<"i", "f", " ", "(", "a", " ", "<", " ", "1", ")", " ", "{", " ", "a",
          " ", "}">>,
     tree |-> None, kind |-> "expression", closed |-> FALSE]

\* let = 1;
LetNoIdentText ==
    [text |->
        <<"l", "e", "t", " ", "=", " ", "1", ";">>,
     tree |-> None, kind |-> "let without IDENT", closed |-> TRUE]

\* let a 1;
LetNoAssignText ==
    [text |->
        <<"l", "e", "t", " ", "a", " ", "1", ";">>,
     tree |-> None, kind |-> "let without =", closed |-> TRUE]

\* let a = 1
LetNoSemicolonText ==
    [text |->
        <<"l", "e", "t", " ", "a", " ", "=", " ", "1">>,
     tree |-> None, kind |-> "let without ;", closed |-> FALSE]

\* if (a) { 1 }(2);
IfCallText ==
    [text |->
        <<"i", "f", " ", "(", "a", ")", " ", "{", " ", "1", " ", "}", "(", "2",
          ")", ";">>,
     tree |-> None, kind |-> "call of if", closed |-> TRUE]

\* fn(a, b) { a };
TwoParametersText ==
    [text |->
        <<"f", "n", "(", "a", ",", " ", "b", ")", " ", "{", " ", "a", " ", "}",
          ";">>,
     tree |-> None, kind |-> "expression", closed |-> TRUE]

\* fn(1) { a };
IntegerParameterText ==
    [text |->
        <<"f", "n", "(", "1", ")", " ", "{", " ", "a", " ", "}", ";">>,
     tree |-> None, kind |-> "parameter not IDENT", closed |-> TRUE]

\* fn(a, 1) { a };
SecondIntegerParameterText ==
    [text |->
        <<"f", "n", "(", "a", ",", " ", "1", ")", " ", "{", " ", "a", " ", "}",
          ";">>,
     tree |-> None, kind |-> "parameter not IDENT", closed |-> TRUE]

StatementTexts ==
    {LetText, ReturnText, InfixText, IfElseText,
     FunctionCallText, OpenText, OpenIfText, LetNoIdentText,
     LetNoAssignText, LetNoSemicolonText, IfCallText,
     TwoParametersText, IntegerParameterText, SecondIntegerParameterText}

RECURSIVE TextSequences(_)
\* the sequences of n statement texts, all but the last closed
TextSequences(n) ==
    IF n = 1 THEN {<<t>> : t \in StatementTexts}
    ELSE {<<t>> \o ts : t \in {c \in StatementTexts : c.closed},
                        ts \in TextSequences(n - 1)}

StatementSources == UNION {TextSequences(n) : n \in 1..MaxTexts}

ParserSources == ExpressionSources \cup StatementSources

\* code is the source written; nothing has been parsed
InitParser ==
    /\ NoEvaluation
    /\ written \in ParserSources
    /\ code = join(<<" ">>, [i \in DOMAIN written |-> written[i].text])
    /\ lexer = Lexer(code)
    /\ tokens = <<>>
    /\ parsed = None
    /\ printed = None
    /\ reparsed = None

\* parsed = Parser(Lexer(code)).parse_program(), or the exception it raises
ParseProgram ==
    /\ parsed = None
    /\ LET r == parse_program(Lexer(code))
       IN  /\ parsed' = r.node
           /\ lexer' = r.ps.lexer
    /\ UNCHANGED <<code, tokens, written, printed, reparsed>>
    /\ UNCHANGED evalVars

\* printed = str(parsed)
PrintProgram ==
    /\ parsed # None
    /\ ~IsRaised(parsed)
    /\ printed = None
    /\ printed' = [text |-> node_str(parsed)]
    /\ UNCHANGED <<code, lexer, tokens, written, parsed, reparsed>>
    /\ UNCHANGED evalVars

\* reparsed = Parser(Lexer(printed)).parse_program(), or its exception
ReparseProgram ==
    /\ printed # None
    /\ reparsed = None
    /\ LET r == parse_program(Lexer(printed.text))
       IN  /\ reparsed' = r.node
           /\ lexer' = r.ps.lexer
    /\ UNCHANGED <<code, tokens, written, parsed, printed>>
    /\ UNCHANGED evalVars

NextParser == ParseProgram \/ PrintProgram \/ ReparseProgram

SpecParser == InitParser /\ [][NextParser]_vars

(***************************************************************************)
(* C12 - C16: the parser                                                   *)
(***************************************************************************)
ValidKinds == {"let", "return", "expression"}

BrokenLets == {"let without IDENT", "let without =", "let without ;"}

ParsedProgram == parsed # None /\ ~IsRaised(parsed)

\* the items before item i of the source are valid statements
ValidBefore(i) == \A j \in 1..(i - 1) : written[j].kind \in ValidKinds

\* the first token of a text
FirstToken(text) == Lexer_next(Lexer(text)).token

\* the token that follows item i of the source
TokenAfter(i) ==
    IF i = Len(written) THEN Token("END_OF_FILE", <<>>)
    ELSE FirstToken(written[i + 1].text)

\* the token type a broken let lacks, and the type found in its place
Unexpected(i) ==
    CASE written[i].kind = "let without IDENT" ->
             [expected |-> "IDENTIFIER", got |-> "ASSIGN"]
      [] written[i].kind = "let without =" ->
             [expected |-> "ASSIGN", got |-> "INTEGER"]
      [] written[i].kind = "let without ;" ->
             [expected |-> "SEMICOLON", got |-> TokenAfter(i).type]

\* C16: a let statement without its IDENT, its = or its ; makes
\* parse_program raise a SyntaxError naming the expected and the found
\* token, and return no Program, however many valid statements precede it.
C16_BrokenLetRaises ==
    \A i \in DOMAIN written :
        (parsed # None /\ written[i].kind \in BrokenLets /\ ValidBefore(i))
            => parsed = Raise("SyntaxError",
                              "Expected next token to be TokenType."
                                  \o Unexpected(i).expected
                                  \o ", got TokenType."
                                  \o Unexpected(i).got)

\* let a = 1; let a 1;  has been parsed
C16_Witness ==
    /\ written = <<LetText, LetNoAssignText>>
    /\ parsed # None
    /\ IsRaised(parsed)

RECURSIVE CallsCallable(_)
\* every CallExpression of a parsed node has an Identifier or a
\* FunctionLiteral as its function
CallsCallable(n) ==
    CASE n.node \in {"Program", "BlockStatement"} ->
             \A i \in DOMAIN n.statements : CallsCallable(n.statements[i])
      [] n.node \in {"LetStatement", "ReturnStatement"} ->
             CallsCallable(n.value)
      [] n.node = "ExpressionStatement" -> CallsCallable(n.expression)
      [] n.node = "FunctionLiteral" -> CallsCallable(n.body)
      [] n.node = "PrefixExpression" -> CallsCallable(n.right)
      [] n.node = "InfixExpression" ->
             CallsCallable(n.left) /\ CallsCallable(n.right)
      [] n.node = "IfExpression" ->
             /\ CallsCallable(n.condition)
             /\ CallsCallable(n.consequence)
             /\ n.alternative # None => CallsCallable(n.alternative)
      [] n.node = "CallExpression" ->
             /\ n.function.node \in {"Identifier", "FunctionLiteral"}
             /\ CallsCallable(n.function)
             /\ \A i \in DOMAIN n.arguments : CallsCallable(n.arguments[i])
      [] OTHER -> TRUE

RECURSIVE CallsOther(_)
\* a tree written with a call of something other than an Identifier
CallsOther(t) ==
    CASE t.node = "PrefixExpression" -> CallsOther(t.right)
      [] t.node = "InfixExpression" ->
             CallsOther(t.left) \/ CallsOther(t.right)
      [] t.node = "CallExpression" ->
             \/ t.function.node # "Identifier"
             \/ CallsOther(t.function)
             \/ \E i \in DOMAIN t.arguments : CallsOther(t.arguments[i])
      [] OTHER -> FALSE

\* item i of the source has a ( after an expression that is neither an
\* Identifier nor a FunctionLiteral
WrittenCallsOther(i) ==
    \/ written[i].kind = "call of if"
    \/ written[i].tree # None /\ CallsOther(written[i].tree)

\* C13: every CallExpression of a Program the parser returns has an
\* Identifier or a FunctionLiteral as its function, and a source with a (
\* after any other expression makes parse_program raise 'Expected identifier
\* or function literal for function call'.
C13_CallFunction ==
    /\ ParsedProgram => CallsCallable(parsed)
    /\ \A i \in DOMAIN written :
           (parsed # None /\ WrittenCallsOther(i) /\ ValidBefore(i))
               => parsed = Raise("TypeError",
                      "Expected identifier or function literal for function call")

\* a(1)(b); has been parsed
C13_Witness ==
    /\ Len(written) = 1
    /\ written[1].tree =
           CallExpression(CallExpression(LeafAt(1).node, <<LeafAt(2).node>>),
                          <<LeafAt(3).node>>)
    /\ code = <<"a", "(", "1", ")", "(", "b", ")", ";">>
    /\ parsed # None
    /\ IsRaised(parsed)

RECURSIVE Strip(_)
\* a parsed expression without its tokens
Strip(n) ==
    CASE n.node = "PrefixExpression" ->
             PrefixExpression(n.operator, Strip(n.right))
      [] n.node = "InfixExpression" ->
             InfixExpression(Strip(n.left), n.operator, Strip(n.right))
      [] n.node = "CallExpression" ->
             CallExpression(Strip(n.function),
                            [i \in DOMAIN n.arguments |->
                                Strip(n.arguments[i])])
      [] n.node = "Identifier" -> Identifier(n.value)
      [] n.node = "IntegerLiteral" -> IntegerLiteral(n.value)

RECURSIVE Grouping(_)
\* a tree with every operator's operands in one pair of parentheses
Grouping(t) ==
    CASE IsLeaf(t) -> LeafText(t)
      [] t.node = "PrefixExpression" ->
             <<"(">> \o t.operator \o Grouping(t.right) \o <<")">>
      [] t.node = "InfixExpression" ->
             <<"(">> \o Grouping(t.left) \o <<" ">> \o t.operator \o <<" ">>
                 \o Grouping(t.right) \o <<")">>
      [] t.node = "CallExpression" ->
             Grouping(t.function) \o <<"(">>
                 \o (IF t.arguments = <<>> THEN <<>>
                     ELSE Grouping(t.arguments[1]))
                 \o <<")">>

\* C12: the expression parsed from the text of a tree, written with the
\* parentheses the precedence table requires, is that tree: tighter
\* operators bind first, one level associates to the left, a prefix operator
\* takes the tightest operand, parentheses override; and the printed form of
\* the program shows the tree's grouping.
C12_PrecedenceGrouping ==
    (Len(written) = 1 /\ written[1].tree # None
         /\ ~CallsOther(written[1].tree))
        => /\ parsed # None =>
                 /\ ~IsRaised(parsed)
                 /\ Len(parsed.statements) = 1
                 /\ parsed.statements[1].node = "ExpressionStatement"
                 /\ Strip(parsed.statements[1].expression) = written[1].tree
           /\ printed # None =>
                 printed.text = Grouping(written[1].tree) \o <<";">>

\* a - 1 - b; has been parsed and printed as ((a - 1) - b);
C12_Witness ==
    /\ code = <<"a", " ", "-", " ", "1", " ", "-", " ", "b", ";">>
    /\ Len(written) = 1
    /\ written[1].tree =
           InfixExpression(InfixExpression(LeafAt(1).node, <<"-">>,
                                           LeafAt(2).node),
                           <<"-">>, LeafAt(3).node)
    /\ printed # None
    /\ printed.text = <<"(", "(", "a", " ", "-", " ", "1", ")", " ", "-", " ", "b", ")", ";">>

\* C14: each statement of the parsed Program stores the first token of the
\* statement's text.
C14_StatementTokens ==
    ParsedProgram =>
        /\ Len(parsed.statements) = Len(written)
        /\ \A i \in DOMAIN written :
               parsed.statements[i].token = FirstToken(written[i].text)

\* C15: parsing the printed form of a parsed Program that has no string
\* literal yields a Program equal to it.
C15_RoundTrip ==
    (reparsed # None /\ \A i \in DOMAIN code : code[i] # "\"")
        => reparsed = parsed

(***************************************************************************)
(* C25: string literals in the lexer                                       *)
(***************************************************************************)
\* the 0-based positions after pos that hold a double quote
QuotesAfter(text, pos) ==
    {j \in (pos + 1)..(Len(text) - 1) : text[j + 1] = "\""}

Least(S) == CHOOSE j \in S : \A k \in S : j <= k

\* C25: at a double quote, next(lexer) returns one STRING token whose
\* literal is the characters between that quote and the next double quote,
\* or the end of the text when there is none, quotes excluded, whatever
\* their number (none and one included); after a closing quote the Lexer
\* stands at the character that follows it.
C25_StringLiteral ==
    \A i \in DOMAIN tokens :
        LET at == Lexer_eat_whitespace(tokens[i].before)
            closing == QuotesAfter(code, at.pos)
        IN  at.current_char = "\"" =>
                IF closing # {}
                    THEN /\ tokens[i].token =
                              Token("STRING",
                                    Slice(code, at.pos + 1, Least(closing)))
                         /\ tokens[i].after.pos = Least(closing) + 1
                         /\ tokens[i].after.current_char =
                              IF Least(closing) + 1 < Len(code)
                                  THEN code[Least(closing) + 2]
                                  ELSE ""
                    ELSE /\ tokens[i].token =
                              Token("STRING",
                                    Slice(code, at.pos + 1, Len(code)))
                         /\ tokens[i].after.current_char = ""

\* ""a: the empty STRING, then the IDENTIFIER a
C25_Witness ==
    /\ code = <<"\"", "\"", "a">>
    /\ Len(tokens) = 2
    /\ tokens[1].token = Token("STRING", <<>>)
    /\ tokens[2].token = Token("IDENTIFIER", <<"a">>)

(***************************************************************************)
(* C26: the parameters of a function literal                               *)
(***************************************************************************)
RECURSIVE ParametersAreIdentifiers(_)
\* every parameter of every FunctionLiteral of a parsed node is an
\* Identifier whose token is an IDENTIFIER token
ParametersAreIdentifiers(n) ==
    CASE n.node \in {"Program", "BlockStatement"} ->
             \A i \in DOMAIN n.statements :
                 ParametersAreIdentifiers(n.statements[i])
      [] n.node \in {"LetStatement", "ReturnStatement"} ->
             ParametersAreIdentifiers(n.value)
      [] n.node = "ExpressionStatement" ->
             ParametersAreIdentifiers(n.expression)
      [] n.node = "FunctionLiteral" ->
             /\ \A i \in DOMAIN n.parameters :
                    /\ n.parameters[i].node = "Identifier"
                    /\ n.parameters[i].token.type = "IDENTIFIER"
             /\ ParametersAreIdentifiers(n.body)
      [] n.node = "PrefixExpression" -> ParametersAreIdentifiers(n.right)
      [] n.node = "InfixExpression" ->
             /\ ParametersAreIdentifiers(n.left)
             /\ ParametersAreIdentifiers(n.right)
      [] n.node = "IfExpression" ->
             /\ ParametersAreIdentifiers(n.condition)
             /\ ParametersAreIdentifiers(n.consequence)
             /\ n.alternative # None =>
                    ParametersAreIdentifiers(n.alternative)
      [] n.node = "CallExpression" ->
             /\ ParametersAreIdentifiers(n.function)
             /\ \A i \in DOMAIN n.arguments :
                    ParametersAreIdentifiers(n.arguments[i])
      [] OTHER -> TRUE

\* C26: every parameter of every FunctionLiteral of a Program the parser
\* returns is an Identifier built from an IDENTIFIER token, and a source
\* whose parameter list holds another token, as fn(1) { a }; and
\* fn(a, 1) { a }; do, makes parse_program raise.
C26_ParametersAreIdentifiers ==
    /\ ParsedProgram => ParametersAreIdentifiers(parsed)
    /\ \A i \in DOMAIN written :
           (parsed # None /\ written[i].kind = "parameter not IDENT"
                /\ ValidBefore(i))
               => IsRaised(parsed)

(***************************************************************************)
(* C27: where a ReturnValue may go                                         *)
(***************************************************************************)
IsReturnValue(obj) == obj.type = "RETURN_VALUE"

\* C27: no ReturnValue is bound to a name of any Environment, passed to a
\* function as an argument, taken as the operand of a prefix or an infix
\* operator, or tested as the condition of an if.
C27_ReturnValueStaysInside ==
    /\ \A e \in DOMAIN envs : \A name \in DOMAIN envs[e].map :
           ~IsReturnValue(envs[e].map[name])
    /\ \A i \in DOMAIN trace :
           LET event == trace[i]
           IN  /\ event.ev = "let" => ~IsReturnValue(event.obj)
               /\ event.ev = "call" =>
                      \A j \in DOMAIN event.args :
                          ~IsReturnValue(event.args[j])
               /\ event.ev = "prefix" => ~IsReturnValue(event.right)
               /\ event.ev = "infix" =>
                      /\ ~IsReturnValue(event.left)
                      /\ ~IsReturnValue(event.right)
               /\ event.ev = "if" => ~IsReturnValue(event.condition)

(***************************************************************************)
(* C22: the order of evaluation of a call                                  *)
(***************************************************************************)
\* what has been printed, in order
Printed ==
    LET prints == SelectSeq(trace, LAMBDA event : event.ev = "print")
    IN  [i \in DOMAIN prints |-> prints[i].obj]

\* the places of a call in the order claimed: the function, the arguments
\* from left to right, the body
CallOrder(f, x, y, body) ==
    <<[raises |-> f, name |-> "f"], [raises |-> x, name |-> "x"],
      [raises |-> y, name |-> "y"], [raises |-> body, name |-> "body"]>>

\* the first place that raises, or 5
FirstRaising(order) ==
    LET raising == {i \in DOMAIN order : order[i].raises}
    IN  IF raising = {} THEN Len(order) + 1 ELSE Least(raising)

\* C22: a call evaluates its function first, then its arguments from left
\* to right, then the body: of the places that raise, the first in this
\* order gives the error of the call, what the places before it print is
\* printed in this order, and nothing after it is evaluated.
C22_CallOrder ==
    \A f \in BOOLEAN, x \in BOOLEAN, y \in BOOLEAN, body \in BOOLEAN :
        program = CallOrderProgram(f, x, y, body) =>
            LET order == CallOrder(f, x, y, body)
                k == FirstRaising(order)
            IN  /\ result = IF k > Len(order) THEN NULL
                            ELSE Raise("NameError",
                                       "Unknown identifier " \o order[k].name)
                /\ Printed = [i \in 1 .. (k - 2) |-> String(order[i + 1].name)]

\* fn(p, q) { body }(puts("x"), y); has printed x and raised for y
C22_Witness ==
    /\ program = CallOrderProgram(FALSE, FALSE, TRUE, TRUE)
    /\ result = Raise("NameError", "Unknown identifier y")
    /\ Printed = <<String("x")>>

(***************************************************************************)
(* C23: the Environment of a call                                          *)
(***************************************************************************)
\* the names a let statement has bound in frame env
LetNames(env) ==
    {trace[j].name : j \in {k \in Entries("let") : trace[k].env = env}}

\* the argument bound to a parameter name: that of its last occurrence
ArgumentOf(call, name) ==
    LET at == {j \in DOMAIN call.function.parameters :
                  call.function.parameters[j].value = name}
    IN  call.args[CHOOSE j \in at : \A k \in at : k <= j]

ParameterNames(call) ==
    {call.function.parameters[j].value : j \in DOMAIN call.function.parameters}

\* C23: each call runs in an Environment of its own, which no other call
\* uses; its outer is the environment the function captured; and it holds
\* the bindings of this call's parameters to this call's arguments, which
\* only a let of the body itself adds to or changes.
C23_FreshCallEnvironment ==
    \A i \in Entries("call") :
        LET call == trace[i]
            frame == envs[call.scope]
        IN  /\ call.scope # 1
            /\ \A j \in Entries("call") : trace[j].scope = call.scope => j = i
            /\ frame.outer = call.function.environment
            /\ DOMAIN frame.map = ParameterNames(call) \cup LetNames(call.scope)
            /\ \A name \in ParameterNames(call) \ LetNames(call.scope) :
                   frame.map[name] = ArgumentOf(call, name)

\* add(1 + 1, add(1, 1)): the two calls of add have a frame each, both with
\* the top-level environment as outer, and the frame of the first still
\* holds its arguments after the second
C23_Witness ==
    /\ program = AddProgram
    /\ result = Integer(4)
    /\ Len(envs) = 3
    /\ envs[2] = [outer |-> 1,
                  map |-> ("x" :> Integer(1)) @@ ("y" :> Integer(1))]
    /\ envs[3] = [outer |-> 1,
                  map |-> ("x" :> Integer(2)) @@ ("y" :> Integer(2))]
    /\ {trace[i].scope : i \in Entries("call")} = {2, 3}

(***************************************************************************)
(* C24: a let statement writes to its own frame                            *)
(***************************************************************************)
\* the let statements that have bound name in frame env
LetsOf(env, name) ==
    {k \in Entries("let") : trace[k].env = env /\ trace[k].name = name}

Greatest(S) == CHOOSE j \in S : \A k \in S : k <= j

\* C24: a let statement binds its name in the frame it is executed in and
\* in no other: a name of a frame has the value of the last let executed in
\* that frame for it, whatever lets other frames execute for the same name,
\* so a let of a function body leaves the top-level, the captured and the
\* calling frame as they are; and the let statement's value is NULL.
C24_LetWritesOwnFrame ==
    /\ \A env \in DOMAIN envs : \A name \in DOMAIN envs[env].map :
           IF LetsOf(env, name) # {}
               THEN envs[env].map[name] =
                        trace[Greatest(LetsOf(env, name))].obj
               ELSE env # 1
    /\ program = LocalLetProgram =>
           /\ result = Integer(1)
           /\ envs[1].map["n"] = Integer(1)
           /\ envs[2].map = ("n" :> Integer(2))
    /\ program = CapturedLetProgram =>
           /\ result = Integer(2)
           /\ "n" \notin DOMAIN envs[1].map
           /\ envs[2].map = ("n" :> Integer(1))
           /\ envs[3].map = ("n" :> Integer(2))
    /\ program = CallerLetProgram =>
           /\ result = Integer(1)
           /\ "n" \notin DOMAIN envs[1].map
           /\ envs[2].map["n"] = Integer(1)
           /\ envs[3].map = ("n" :> Integer(2))
    /\ program = LetLastProgram =>
           /\ result = NULL
           /\ envs[1].map = ("n" :> Integer(1))
           /\ envs[2].map = ("n" :> Integer(2))

\* let n = 1; let f = fn() { let n = 2; n }; f(); n;  has evaluated to 1
C24_Witness ==
    /\ program = LocalLetProgram
    /\ result = Integer(1)
    /\ LetsOf(2, "n") # {}
    /\ envs[2].outer = 1

(***************************************************************************)
(* The REPL: src/monk/__main__.py started without a file.                  *)
(* env = Environment(), then  while True: run(input(">>> "), env).         *)
(* Nothing in __main__.py catches an exception: one raised by input() or   *)
(* by run() leaves the loop and ends the process.  main is                 *)
(* [pc, out, exception]: pc is "repl" inside the loop and "exited" after   *)
(* the process has ended, out is what print(result) has written, and       *)
(* exception is the exception the process ended with.                      *)
(***************************************************************************)
RECURSIVE Str(_)
\* the str of a sequence of characters
Str(chars) == IF chars = <<>> THEN "" ELSE Head(chars) \o Str(Tail(chars))

RECURSIVE MagValue(_)
MagValue(mag) == IF mag = <<>> THEN 0 ELSE Head(mag) + 256 * MagValue(Tail(mag))

\* the number an int of the parser is
IntValue(a) == IF a.neg THEN -MagValue(a.mag) ELSE MagValue(a.mag)

RECURSIVE Handover(_)
\* the Program as evaluate reads it: the nodes the parser built, without
\* their tokens
Handover(n) ==
    CASE n = None -> None
      [] n.node = "Program" ->
             Program([i \in DOMAIN n.statements |-> Handover(n.statements[i])])
      [] n.node = "BlockStatement" ->
             BlockStatement([i \in DOMAIN n.statements |->
                                Handover(n.statements[i])])
      [] n.node = "LetStatement" ->
             LetStatement(Handover(n.name), Handover(n.value))
      [] n.node = "ReturnStatement" -> ReturnStatement(Handover(n.value))
      [] n.node = "ExpressionStatement" ->
             ExpressionStatement(Handover(n.expression))
      [] n.node = "Identifier" -> Identifier(Str(n.value))
      [] n.node = "IntegerLiteral" -> IntegerLiteral(IntValue(n.value))
      [] n.node = "BooleanLiteral" -> BooleanLiteral(n.value)
      [] n.node = "StringLiteral" -> StringLiteral(Str(n.value))
      [] n.node = "FunctionLiteral" ->
             FunctionLiteral([i \in DOMAIN n.parameters |->
                                 Handover(n.parameters[i])],
                             Handover(n.body))
      [] n.node = "PrefixExpression" ->
             PrefixExpression(Str(n.operator), Handover(n.right))
      [] n.node = "InfixExpression" ->
             InfixExpression(Handover(n.left), Str(n.operator),
                             Handover(n.right))
      [] n.node = "IfExpression" ->
             IfExpression(Handover(n.condition), Handover(n.consequence),
                          Handover(n.alternative))
      [] n.node = "CallExpression" ->
             CallExpression(Handover(n.function),
                            [i \in DOMAIN n.arguments |->
                                Handover(n.arguments[i])])

\* run(code, env) with es the heap, lines what standard input holds and
\* history the history so far: the Lexer, the Program parsed and evaluated,
\* the heap, the input and the history it leaves, and in result what
\* evaluate returned, which run prints, or the exception run ends with
run(text, es, lines, history) ==
    Bind(parse_program(Lexer(text)), LAMBDA p :
        IF IsRaised(p.node)
            THEN [lexer |-> p.ps.lexer, parsed |-> p.node,
                  program |-> NoProgram, envs |-> es, stdin |-> lines,
                  trace |-> history, result |-> p.node]
            ELSE Bind(evaluate(Handover(p.node), 1,
                               [envs |-> es,
                                stdin |-> [i \in DOMAIN lines |->
                                              Str(lines[i])],
                                depth |-> 0, trace |-> history]),
                      LAMBDA r :
                 [lexer |-> p.ps.lexer, parsed |-> p.node,
                  program |-> Handover(p.node), envs |-> r.h.envs,
                  stdin |-> SubSeq(lines, Len(lines) - Len(r.h.stdin) + 1,
                                   Len(lines)),
                  trace |-> r.h.trace, result |-> r.obj]))

\* a;
ReadText ==
    [text |-> <<"a", ";">>,
     tree |-> None, kind |-> "expression", closed |-> TRUE]

\* b;
UnknownText ==
    [text |-> <<"b", ";">>,
     tree |-> None, kind |-> "unknown identifier", closed |-> TRUE]

\* -true;
MinusTrueText ==
    [text |-> <<"-", "t", "r", "u", "e", ";">>,
     tree |-> None, kind |-> "unknown operator", closed |-> TRUE]

\* the lines typed: let a = 1;  a;  b;  -true;  let = 1;
ReplTexts == {LetText, ReadText, UnknownText, MinusTrueText, LetNoIdentText}

\* a bound: the lines of a session before the end of the input
MaxLines == 3

Sessions == UNION {[1 .. n -> ReplTexts] : n \in 0 .. MaxLines}

\* env = Environment(); the loop is entered; standard input holds the
\* lines of the session
InitRepl ==
    /\ written \in Sessions
    /\ stdin = [i \in DOMAIN written |-> written[i].text]
    /\ main = [pc |-> "repl", out |-> <<>>, exception |-> None]
    /\ program = NoProgram
    /\ envs = <<Environment(0)>>
    /\ result = None
    /\ trace = <<>>
    /\ code = <<>>
    /\ lexer = None
    /\ tokens = <<>>
    /\ parsed = None
    /\ printed = None
    /\ reparsed = None

\* one turn of the loop: run(input(">>> "), env)
ReplTurn ==
    /\ main.pc = "repl"
    /\ IF stdin = <<>>
           THEN /\ main' = [main EXCEPT !.pc = "exited",
                                !.exception =
                                    Raise("EOFError", "EOF when reading a line")]
                /\ UNCHANGED <<program, envs, stdin, result, trace, code,
                               lexer, parsed>>
           ELSE LET r == run(Head(stdin), envs, Tail(stdin), trace)
                IN  /\ code' = Head(stdin)
                    /\ lexer' = r.lexer
                    /\ parsed' = r.parsed
                    /\ program' = r.program
                    /\ envs' = r.envs
                    /\ stdin' = r.stdin
                    /\ trace' = r.trace
                    /\ result' = r.result
                    /\ main' = IF IsRaised(r.result)
                                   THEN [main EXCEPT !.pc = "exited",
                                                     !.exception = r.result]
                                   ELSE [main EXCEPT !.out = Append(@, r.result)]
    /\ UNCHANGED <<tokens, written, printed, reparsed>>

NextRepl == ReplTurn

SpecRepl == InitRepl /\ [][NextRepl]_vars

(***************************************************************************)
(* C21: an error in the REPL                                               *)
(***************************************************************************)
\* C21: a line of the REPL whose lexing, parsing or evaluation raises does
\* not end the session: the lines after it are read and evaluated, so the
\* process ends only at the end of the input; and what earlier lines bound
\* in the top-level environment is still there: after let a = 1; and b;
\* the line a; prints 1.
C21_ErrorKeepsSession ==
    /\ main.pc = "exited" =>
           /\ stdin = <<>>
           /\ main.exception.raised = "EOFError"
    /\ (written = <<LetText, UnknownText, ReadText>> /\ main.pc = "exited")
           => main.out = <<NULL, Integer(1)>>








====
